---- MODULE Spec2Model ----
(***************************************************************************)
(* Connection/render state machine of CloudXRClientOVR                     *)
(* (app/src/main/src/main.cpp): the main loop of the native thread, the    *)
(* pause/resume transitions, receiver creation and teardown, the peer's    *)
(* state-change callback and the launch-option call of the Java thread.    *)
(*                                                                         *)
(* Pointers are modelled by BOOLEAN "is non-null".  One step of the main   *)
(* thread is one call made by MainLoop; AppResumed is cut in two at the    *)
(* point where it starts the connection, because the Java thread and the   *)
(* peer thread write mClientState / mRenderState without a lock.           *)
(***************************************************************************)
EXTENDS Integers, Sequences, FiniteSets, TLC

(* ---- bounds of the model ---- *)
MaxPending == 2      \* host commands waiting in the looper queue
MaxDim == 2          \* video frame widths / heights are 1..MaxDim

Eyes == {0, 1}
Dims == 1..MaxDim

ClientStates == {"ReadyToConnect", "ConnectionAttemptInProgress",
                 "ConnectionAttemptFailed", "StreamingSessionInProgress",
                 "Disconnected", "Exiting"}
RenderStates == {"Loading", "Running", "Exiting"}

\* states the peer reports through the UpdateClientState callback
PeerStates == {"ConnectionAttemptInProgress", "StreamingSessionInProgress",
               "ConnectionAttemptFailed", "Disconnected"}

\* commands android_handle_cmd reacts to
Commands == {"RESUME", "PAUSE", "INIT_WINDOW", "TERM_WINDOW", "DESTROY"}

LatchResults == {"Success", "Frame_Not_Ready", "Not_Connected", "Failed"}
PlaybackResults == {"ok", "openFail", "bufferFail", "startFail"}
RecordingResults == {"ok", "openFail", "startFail"}

VARIABLES
    cx,                 \* the CloudXRClientOVR object (record of its members)
    pc,                 \* position of the native thread in android_main / MainLoop
    pending,            \* host commands written to the looper, not yet processed
    destroyRequested,   \* android_app::destroyRequested
    GOptions,           \* parsed launch options
    launched,           \* nativeHandleLaunchOptions has run
    ctl,                \* a CloudXRController object (CloudXRController.cpp)
    serverQueue         \* the action-event queue handed to HandleModernEvents

vars == <<cx, pc, pending, destroyRequested, GOptions, launched, ctl, serverQueue>>

\* the variables of the client application, and those of the controller class
appvars == <<cx, pc, pending, destroyRequested, GOptions, launched>>
ctlvars == <<ctl, serverQueue>>

Inc2(n) == IF n < 2 THEN n + 1 ELSE n

(* ======================================================================= *)
(* CloudXRController and cxrControllerInputActionMap (CloudXRController.cpp) *)
(* A std::map is a function with a finite domain; insert() keeps the entry *)
(* a key already has.  A vector (cxrVector3) is modelled by one coordinate.*)
(* ======================================================================= *)
MaxInputs == 2         \* length of the client input arrays of a controller
MaxServerInputs == 1   \* length of the server input arrays
MaxActions == 2        \* length of the server action array
MaxQueue == 2          \* events handed to HandleModernEvents / held by the queue
MaxCoord == 1          \* pose coordinates are 0..MaxCoord

\* input paths and action paths in the order a std::map iterates its keys
InputPaths == <<"/input/a/click", "/input/trigger/value">>
ActionPaths == <<"/actions/fire", "/actions/grab">>
InputPathSet == {InputPaths[i] : i \in 1..Len(InputPaths)}
ActionPathSet == {ActionPaths[i] : i \in 1..Len(ActionPaths)}

ValueTypes == {"boolean", "float32"}
\* the value std::map::operator[] creates for a missing key
DefaultValueType == "boolean"

Roles == {"cxr://input/hand/left", "cxr://input/hand/right", "cxr://input/other"}
Coords == 0..MaxCoord
Rotations == {"identity", "half_turn"}

EmptyMap == <<>>
MapInsert(m, k, v) == IF k \in DOMAIN m THEN m ELSE m @@ (k :> v)
\* m[k] of a std::map: the looked-up value and the map, which gains a default entry
MapIndex(m, k, dflt) ==
    IF k \in DOMAIN m THEN [val |-> m[k], map |-> m]
    ELSE [val |-> dflt, map |-> m @@ (k :> dflt)]

\* every std::map<std::string, std::string> over the input and action paths
Profiles == UNION {[D -> ActionPathSet] : D \in SUBSET InputPathSet}

\* arrays of at most n elements of S
Arrays(S, n) == UNION {[1..k -> S] : k \in 0..n}

InitActionMap ==
    [ m_serverInputPaths     |-> EmptyMap,
      m_serverInputDatatypes |-> EmptyMap,
      m_serverActionPaths    |-> EmptyMap,
      m_clientInputPaths     |-> EmptyMap,
      m_clientInputDatatypes |-> EmptyMap,
      m_actionProfile        |-> EmptyMap,
      m_inputToActionRemap   |-> EmptyMap,
      \* history, not a member: the paths array of the last RegisterClientInputs
      regPaths               |-> <<>> ]

ZeroPose ==
    [ deviceIsConnected |-> FALSE, poseIsValid |-> FALSE,
      position |-> 0, velocity |-> 0, acceleration |-> 0,
      angularAcceleration |-> 0, angularVelocity |-> 0 ]

\* devOK: devID is not kDeviceIdInvalid
CloudXRController(devOK, angularVelInDevSpace) ==
    [ m_deviceID |-> devOK,
      m_angularVelInDevSpace |-> angularVelInDevSpace,
      m_pose |-> ZeroPose,
      m_hand |-> "None",
      m_actionMap |-> InitActionMap ]

\* the loop of RegisterClientInputs, from array offset i
RECURSIVE RegisterClientInputsFrom(_, _, _, _)
RegisterClientInputsFrom(am, paths, types, i) ==
    IF i >= Len(paths) THEN am
    ELSE RegisterClientInputsFrom(
           [am EXCEPT !.m_clientInputPaths = MapInsert(@, paths[i + 1], i),
                      !.m_clientInputDatatypes = MapInsert(@, i, types[i + 1])],
           paths, types, i + 1)

RegisterClientInputs(am, paths, types) ==
    RegisterClientInputsFrom(
        [am EXCEPT !.m_clientInputPaths = EmptyMap,
                   !.m_clientInputDatatypes = EmptyMap,
                   !.regPaths = paths],
        paths, types, 0)

\* the loop of RegisterServerInputs; the cross-check against the client types only logs
RECURSIVE RegisterServerInputsFrom(_, _, _, _)
RegisterServerInputsFrom(am, inputPaths, inputTypes, i) ==
    IF i >= Len(inputPaths) THEN am
    ELSE LET am1 == [am EXCEPT
                       !.m_serverInputPaths = MapInsert(@, inputPaths[i + 1], i),
                       !.m_serverInputDatatypes = MapInsert(@, i, inputTypes[i + 1])]
             am2 == IF inputPaths[i + 1] \in DOMAIN am1.m_clientInputPaths
                    THEN [am1 EXCEPT !.m_clientInputDatatypes =
                            MapIndex(@, am1.m_clientInputPaths[inputPaths[i + 1]],
                                     DefaultValueType).map]
                    ELSE am1
         IN  RegisterServerInputsFrom(am2, inputPaths, inputTypes, i + 1)

RegisterServerInputs(am, inputPaths, inputTypes) ==
    RegisterServerInputsFrom(
        [am EXCEPT !.m_serverInputPaths = EmptyMap,
                   !.m_serverInputDatatypes = EmptyMap],
        inputPaths, inputTypes, 0)

\* the loop of RegisterActions: the action index is the array offset
RECURSIVE RegisterActionsFrom(_, _, _)
RegisterActionsFrom(am, actionPaths, i) ==
    IF i >= Len(actionPaths) THEN am
    ELSE RegisterActionsFrom(
           [am EXCEPT !.m_serverActionPaths = MapInsert(@, actionPaths[i + 1], i)],
           actionPaths, i + 1)

\* RegisterActions that also drops the remap table
RegisterActions_Rebinds(am, actionPaths) ==
    RegisterActionsFrom([am EXCEPT !.m_serverActionPaths = EmptyMap,
                                   !.m_inputToActionRemap = EmptyMap],
                        actionPaths, 0)

RegisterActions(am, actionPaths) ==
    RegisterActionsFrom([am EXCEPT !.m_serverActionPaths = EmptyMap], actionPaths, 0)

\* the loop of BindProfile over the bindings, in key order, from the k-th input path
RECURSIVE BindProfileFrom(_, _, _)
BindProfileFrom(am, profile, k) ==
    IF k > Len(InputPaths) THEN am
    ELSE LET first == InputPaths[k]
         IN  IF first \notin DOMAIN profile
             THEN BindProfileFrom(am, profile, k + 1)
             ELSE IF first \notin DOMAIN am.m_clientInputPaths
             THEN BindProfileFrom(am, profile, k + 1)
             ELSE IF profile[first] \notin DOMAIN am.m_serverActionPaths
             THEN BindProfileFrom(am, profile, k + 1)
             ELSE BindProfileFrom(
                    [am EXCEPT !.m_inputToActionRemap =
                                   MapInsert(@, am.m_clientInputPaths[first],
                                             am.m_serverActionPaths[profile[first]]),
                               !.m_actionProfile = MapInsert(@, first, profile[first])],
                    profile, k + 1)

\* BindProfile that adds to the tables it finds
BindProfile_NoClear(am, profile) == BindProfileFrom(am, profile, 1)

BindProfile(am, profile) ==
    BindProfileFrom([am EXCEPT !.m_actionProfile = EmptyMap,
                               !.m_inputToActionRemap = EmptyMap],
                    profile, 1)

\* GetActionIndex that answers with the client index it was asked about
GetActionIndex_ClientIndex(am, clientInputIndex) ==
    IF clientInputIndex \in DOMAIN am.m_inputToActionRemap
    THEN clientInputIndex
    ELSE 0

GetActionIndex(am, clientInputIndex) ==
    IF clientInputIndex \in DOMAIN am.m_inputToActionRemap
    THEN am.m_inputToActionRemap[clientInputIndex]
    ELSE 0

RegisterController(k, desc) ==
    [k EXCEPT !.m_hand = IF desc.role = "cxr://input/hand/left" THEN "Left"
                         ELSE IF desc.role = "cxr://input/hand/right" THEN "Right"
                         ELSE "None",
              !.m_actionMap = RegisterClientInputs(@, desc.inputPaths, desc.inputValueTypes)]

\* the sanity check of HandleModernEvents: the type registered for the client
\* input of the event is not the type of the event's value
TypeMismatch(k, e) ==
    MapIndex(k.m_actionMap.m_clientInputDatatypes, e.clientInputIndex,
             DefaultValueType).val # e.valueType

\* the loop of HandleModernEvents from event i; r is [k: controller, queue: serverQueue]
RECURSIVE HandleModernEventsFrom(_, _, _)
HandleModernEventsFrom(r, events, i) ==
    IF i >= Len(events) THEN r
    ELSE LET e  == events[i + 1]
             dt == MapIndex(r.k.m_actionMap.m_clientInputDatatypes,
                            e.clientInputIndex, DefaultValueType)
             k1 == [r.k EXCEPT !.m_actionMap.m_clientInputDatatypes = dt.map]
             ai == GetActionIndex(k1.m_actionMap, e.clientInputIndex)
         IN  IF dt.val # e.valueType
             THEN HandleModernEventsFrom([k |-> k1, queue |-> r.queue], events, i + 1)
             ELSE IF ai = 0
             THEN HandleModernEventsFrom([k |-> k1, queue |-> r.queue], events, i + 1)
             ELSE HandleModernEventsFrom(
                    [k |-> k1,
                     queue |-> Append(r.queue, [actionIndex |-> ai, clientEvent |-> e])],
                    events, i + 1)

HandleModernEvents(k, queue, events) ==
    HandleModernEventsFrom([k |-> k, queue |-> queue], events, 0)

\* inverse of the pose rotation applied to the world-space angular velocity
TransformToDeviceSpace(rotation, v) == IF rotation = "identity" THEN v ELSE 0 - v

\* UpdatePose that copies the sample whatever its valid flag says
UpdatePose_Always(k, state) ==
    [k EXCEPT !.m_pose = [deviceIsConnected |-> state.deviceIsConnected,
                          poseIsValid |-> state.poseIsValid,
                          position |-> state.position,
                          velocity |-> state.velocity,
                          acceleration |-> state.acceleration,
                          angularAcceleration |-> state.angularAcceleration,
                          angularVelocity |-> state.angularVelocity]]

UpdatePose(k, state) ==
    LET k1 == [k EXCEPT !.m_pose.deviceIsConnected = state.deviceIsConnected,
                        !.m_pose.poseIsValid = state.poseIsValid]
        vAngularVelocity ==
            IF k.m_angularVelInDevSpace THEN state.angularVelocity
            ELSE TransformToDeviceSpace(state.rotation, state.angularVelocity)
    IN  IF k1.m_pose.poseIsValid
        THEN [k1 EXCEPT !.m_pose.acceleration = state.acceleration,
                        !.m_pose.angularAcceleration = state.angularAcceleration,
                        !.m_pose.position = state.position,
                        !.m_pose.velocity = state.velocity,
                        !.m_pose.angularVelocity = vAngularVelocity]
        ELSE k1

Update(k, state) == IF k.m_deviceID THEN UpdatePose(k, state) ELSE k

(* ---- controller input of the client (main.cpp) ---- *)
MaxActive == 1       \* inputs of one controller that are off rest in one snapshot

Hands == {0, 1}      \* handIndex: 0 left, 1 right

\* ovr button bit index -> client input index (-1: not mapped), bits 0..31
ovrBitsToInput ==
    << 12, 13, -1, -1,   -1, -1, -1, -1,   14, 15, -1, -1,   -1, -1, -1, -1,
       -1, -1, -1, -1,    0, -1, -1, -1,   -1, -1,  5, -1,   -1,  2, -1,  8 >>

\* ovr touch bit index -> client input index (-1: not mapped), bits 0..15
ovrTouchToInput ==
    << 16, 17, 18, 19,   -1, 9, 3, -1,   -1, -1, -1, -1,   -1, -1, -1, -1 >>

\* the bits and scalar values the snapshots of the model are built from:
\* button A and the unmapped bit 5; touch A and the unmapped bit 4
ModelledButtonBits == {0, 5}
ModelledTouchBits == {0, 4}
ScalarValues == {0, 1}
TimesNS == {1, 2}

\* ovrInputStateTrackedRemote: the masks are the sets of their set bits
AllInputStates ==
    [Buttons : SUBSET ModelledButtonBits, Touches : SUBSET ModelledTouchBits,
     IndexTrigger : ScalarValues, GripTrigger : ScalarValues,
     JoystickX : ScalarValues, JoystickY : ScalarValues]

Active(s) ==
    Cardinality(s.Buttons) + Cardinality(s.Touches)
      + (IF s.IndexTrigger # 0 THEN 1 ELSE 0) + (IF s.GripTrigger # 0 THEN 1 ELSE 0)
      + (IF s.JoystickX # 0 THEN 1 ELSE 0) + (IF s.JoystickY # 0 THEN 1 ELSE 0)

InputStates == {s \in AllInputStates : Active(s) <= MaxActive}

ZeroInputState ==
    [Buttons |-> {}, Touches |-> {}, IndexTrigger |-> 0, GripTrigger |-> 0,
     JoystickX |-> 0, JoystickY |-> 0]

\* the client input indices, and the state of a controller nothing was sent for
InputIndices == 0..19
ZeroView == [i \in InputIndices |-> 0]

\* what the VR runtime and the peer answer for one enumerated device: at most
\* one of the calls fails
DeviceResults ==
    {r \in [addOK : BOOLEAN, trackOK : BOOLEAN, inputOK : BOOLEAN, fireOK : BOOLEAN] :
        Cardinality({f \in {"addOK", "trackOK", "inputOK", "fireOK"} : ~r[f]}) <= 1}

\* the device calls before the submission all succeed
Sampled(res) == res.addOK /\ res.trackOK /\ res.inputOK

\* capsHeader.DeviceID: the identifiers the VR runtime gives its input devices
DeviceIDs == {7}

\* one tracked-remote device as ProcessControllers finds it, sampled at time t
DevicesAt(t) ==
    [handIndex : Hands, DeviceID : DeviceIDs, input : InputStates, inputTimeNS : {t},
     res : DeviceResults]

Devices == UNION {DevicesAt(t) : t \in TimesNS}

\* the devices of a session in which only button A is ever pressed
SessionDevices ==
    {d \in Devices : /\ d.input.Buttons \subseteq {0}
                     /\ Active(d.input) = Cardinality(d.input.Buttons)
                     /\ d.inputTimeNS = 1}

\* the enumerations of a run: one device, or both hands; the clock reads 1
\* in every sample, as no sample is kept and none is compared with another
DevicePairs ==
    {p \in SessionDevices \X SessionDevices : p[1].handIndex # p[2].handIndex}

DeviceLists == {<<d>> : d \in DevicesAt(1)} \cup DevicePairs

\* display rates are counted in half hertz, so that the rates that are no whole
\* number of hertz (89.5) have a value
Hz(n) == 2 * n

RefreshRates == {Hz(72), Hz(80), Hz(90), Hz(120)}

\* the rates the headset reports: VRAPI_SYS_PROP_SUPPORTED_DISPLAY_REFRESH_RATES
QuestRates == <<Hz(72), Hz(80), Hz(90), Hz(120)>>

cDefaultDisplayRefresh == Hz(72)

\* interpupillary distances as the runtime reports them, in 1/100 mm: two that
\* differ by less than the 1/10 mm the client keeps, and one further away
RawIpds == {6300, 6305, 6400}

\* ovrTracking2: what a sample of the head is made from
HmdSamples == [ipd : RawIpds, orientationValid : BOOLEAN, hmdConnected : BOOLEAN]

\* the head at rest, tracked and connected
StillHead == [ipd |-> 6300, orientationValid |-> TRUE, hmdConnected |-> TRUE]

\* cxrVRTrackingState.hmd = {}
ZeroHmd ==
    [ipd |-> 0, flags |-> {}, displayRefresh |-> 0,
     poseIsValid |-> FALSE, deviceIsConnected |-> FALSE]

(* ---- construction ---- *)
InitClient ==
    [ mClientState    |-> "ReadyToConnect",
      mRenderState    |-> "Loading",
      mIsPaused       |-> TRUE,
      mWasPaused      |-> TRUE,
      mNativeWindow   |-> FALSE,
      mOvrSession     |-> FALSE,
      mReadyToConnect |-> FALSE,
      async           |-> FALSE,          \* mConnectionDesc.async
      Receiver        |-> FALSE,
      playbackStream  |-> "none",
      recordingStream |-> "none",
      SwapChains      |-> [e \in Eyes |-> FALSE],
      EyeWidth        |-> [e \in Eyes |-> 0],
      EyeHeight       |-> [e \in Eyes |-> 0],
      hmd             |-> ZeroHmd,        \* TrackingState.hmd
      mRefreshChanged |-> FALSE,
      mTargetDisplayRefresh |-> 0,
      supportedRates  |-> QuestRates,   \* what the runtime reports as its display rates
      m_newControllers |-> [h \in Hands |-> FALSE],
      mLastInputState  |-> [h \in Hands |-> ZeroInputState],
      \* history, not members of the class
      registered      |-> [h \in Hands |-> FALSE],  \* hand added to the receiver that exists now
      regId           |-> [h \in Hands |-> -1],     \* the id it was added under (-1: none)
      adds            |-> [h \in Hands |-> 0],      \* controllers added for the hand to that receiver
      peerView        |-> [h \in Hands |-> ZeroView],  \* the events that receiver accepted, replayed
      sampling        |-> FALSE,  \* a thread of the peer is inside the GetTrackingState callback
      liveReceivers   |-> 0,    \* receivers created and not destroyed
      connects        |-> 0,    \* cxrConnect calls since the resume transition began
      teardowns       |-> 0,    \* AppPaused runs since the last RESUME command
      reqs            |-> 1,    \* consecutive equal SetPaused requests (capped at 2)
      recov           |-> 0 ]   \* 1 failure handled, 2 then PAUSE issued, 3 then RESUME issued

InitOptions ==
    [ mServerIP |-> FALSE, mReceiveAudio |-> FALSE, mSendAudio |-> FALSE,
      mRequestedRefreshRate |-> 0 ]

\* the client application right after construction
InitApp ==
    /\ cx = InitClient
    /\ pc = "top"
    /\ pending = <<>>
    /\ destroyRequested = FALSE
    /\ GOptions = InitOptions
    /\ launched = FALSE

Init ==
    /\ InitApp
    /\ ctl = CloudXRController(TRUE, TRUE)
    /\ serverQueue = <<>>

(* ---- CloudXRClientOVR members ---- *)
RequestExit(c) ==
    [c EXCEPT !.mClientState = "Exiting", !.mRenderState = "Exiting"]

\* UpdateClientState without the StreamingSessionInProgress case
UpdateClientState_NoRunning(c) ==
    IF c.mClientState = "Exiting" THEN c
    ELSE IF c.mClientState \in {"Disconnected", "ConnectionAttemptFailed"}
         THEN [RequestExit(c) EXCEPT !.recov = 1]
         ELSE c

\* UpdateClientState that only logs a connection failure
UpdateClientState_NoExit(c) ==
    IF c.mClientState = "Exiting" THEN c
    ELSE IF c.async /\ c.mClientState = "StreamingSessionInProgress"
         THEN [c EXCEPT !.mRenderState = "Running"]
         ELSE c

UpdateClientState(c) ==
    IF c.mClientState = "Exiting" THEN c
    ELSE LET c1 == IF c.async /\ c.mClientState = "StreamingSessionInProgress"
                   THEN [c EXCEPT !.mRenderState = "Running"]
                   ELSE c
         IN  IF c1.mClientState \in {"Disconnected", "ConnectionAttemptFailed"}
             THEN [RequestExit(c1) EXCEPT !.recov = 1]
             ELSE c1

CloseStream(s) == IF s = "none" THEN s ELSE "closed"

\* TeardownReceiver that forgets the recording stream
TeardownReceiver_KeepsRecording(c) ==
    [c EXCEPT !.playbackStream  = CloseStream(@),
              !.liveReceivers   = IF c.Receiver THEN @ - 1 ELSE @,
              !.registered      = [h \in Hands |-> FALSE],
              !.regId           = [h \in Hands |-> -1],
              !.adds            = [h \in Hands |-> 0],
              !.peerView        = [h \in Hands |-> ZeroView],
              !.sampling        = FALSE,
              !.Receiver        = FALSE]

\* TeardownReceiver that drops the handle without cxrDestroyReceiver
TeardownReceiver_Leak(c) ==
    [c EXCEPT !.playbackStream  = CloseStream(@),
              !.recordingStream = CloseStream(@),
              !.registered      = [h \in Hands |-> FALSE],
              !.regId           = [h \in Hands |-> -1],
              !.adds            = [h \in Hands |-> 0],
              !.peerView        = [h \in Hands |-> ZeroView],
              !.sampling        = FALSE,
              !.Receiver        = FALSE]

TeardownReceiver(c) ==
    [c EXCEPT !.playbackStream  = CloseStream(@),
              !.recordingStream = CloseStream(@),
              !.liveReceivers   = IF c.Receiver THEN @ - 1 ELSE @,
              !.registered      = [h \in Hands |-> FALSE],
              !.regId           = [h \in Hands |-> -1],
              !.adds            = [h \in Hands |-> 0],
              !.peerView        = [h \in Hands |-> ZeroView],
              !.sampling        = FALSE,
              !.Receiver        = FALSE]

\* desc: mDeviceDesc; io: what the audio library and the peer answer during this call
CreateReceiver(c, desc, io) ==
    IF c.Receiver THEN [c |-> c, err |-> "Success"]
    ELSE IF ~GOptions.mServerIP THEN [c |-> c, err |-> "Required_Parameter"]
    ELSE IF ~c.mOvrSession THEN [c |-> c, err |-> "Failed"]
    ELSE
    LET c1 == IF desc.receiveAudio
              THEN [c EXCEPT !.playbackStream =
                        IF io.playback = "openFail" THEN "none" ELSE "open"]
              ELSE c
    IN  IF desc.receiveAudio /\ io.playback # "ok" THEN [c |-> c1, err |-> "Failed"]
    ELSE
    LET c2 == IF desc.sendAudio
              THEN [c1 EXCEPT !.recordingStream =
                        IF io.recording = "openFail" THEN "none" ELSE "open"]
              ELSE c1
    IN  IF desc.sendAudio /\ io.recording # "ok" THEN [c |-> c2, err |-> "Failed"]
    ELSE IF ~io.createOK THEN [c |-> c2, err |-> "Failed"]
    ELSE
    LET c3 == [c2 EXCEPT !.Receiver = TRUE,
                         !.liveReceivers = Inc2(@),
                         !.async = TRUE,
                         !.connects = Inc2(@),
                         !.recov = 0]
    IN  IF ~c3.async
        THEN IF ~io.connectOK
             THEN [c |-> TeardownReceiver(c3), err |-> "Failed"]
             ELSE [c |-> [c3 EXCEPT !.mClientState = "StreamingSessionInProgress",
                                    !.mRenderState = "Running"],
                   err |-> "Success"]
        ELSE [c |-> c3, err |-> "Success"]

RecreateSwapchain(c, width, height, eye) ==
    [c EXCEPT !.SwapChains[eye] = TRUE,
              !.EyeWidth[eye]   = width,
              !.EyeHeight[eye]  = height]

\* RenderEye that looks at the width of the frame only
RenderEye_WidthOnly(c, frameValid, vf, eye) ==
    IF frameValid /\ vf.widthFinal # c.EyeWidth[eye]
    THEN RecreateSwapchain(c, vf.widthFinal, vf.heightFinal, eye)
    ELSE c

\* the per-eye part of Render; vf is the latched video frame of this eye
RenderEye(c, frameValid, vf, eye) ==
    IF frameValid /\ (vf.widthFinal # c.EyeWidth[eye] \/ vf.heightFinal # c.EyeHeight[eye])
    THEN RecreateSwapchain(c, vf.widthFinal, vf.heightFinal, eye)
    ELSE c

Render(c, frameErr, frames) ==
    LET latch      == c.Receiver /\ c.mClientState = "StreamingSessionInProgress"
        frameValid == latch /\ frameErr = "Success"
        c1 == IF latch /\ frameErr = "Not_Connected" THEN RequestExit(c) ELSE c
    IN  RenderEye(RenderEye(c1, frameValid, frames[0], 0), frameValid, frames[1], 1)

\* a call Render makes to the peer, to GL or to the compositor; eye is -1
\* where the call is not made for one eye
Call(name, eye) == [call |-> name, eye |-> eye]

\* the per-eye part of Render that draws without testing SetupFramebuffer
RenderEyeCalls_NoSetupTest(c, frameValid, vf, eye, fbOK) ==
    (IF frameValid /\ (vf.widthFinal # c.EyeWidth[eye] \/ vf.heightFinal # c.EyeHeight[eye])
     THEN <<Call("RecreateSwapchain", eye)>> ELSE <<>>)
    \o <<Call("SetupFramebuffer", eye)>>
    \o <<Call("cxrBlitFrame", eye)>>

\* the calls of the per-eye part of Render; fbOK: SetupFramebuffer succeeds
RenderEyeCalls(c, frameValid, vf, eye, fbOK) ==
    (IF frameValid /\ (vf.widthFinal # c.EyeWidth[eye] \/ vf.heightFinal # c.EyeHeight[eye])
     THEN <<Call("RecreateSwapchain", eye)>> ELSE <<>>)
    \o <<Call("SetupFramebuffer", eye)>>
    \o (IF ~fbOK THEN <<>>
        ELSE IF frameValid THEN <<Call("cxrBlitFrame", eye)>>
        ELSE <<Call("FillBackground", eye)>>)

\* Render that releases the frame whether or not one was latched
RenderCalls_AlwaysReleases(c, frameErr, frames, fbOK) ==
    <<Call("cxrLatchFrame", -1)>>
    \o RenderEyeCalls(c, frameErr = "Success", frames[0], 0, fbOK[0])
    \o RenderEyeCalls(c, frameErr = "Success", frames[1], 1, fbOK[1])
    \o <<Call("cxrReleaseFrame", -1), Call("SubmitLayers", -1)>>

\* the calls Render makes, in order
RenderCalls(c, frameErr, frames, fbOK) ==
    LET latch      == c.Receiver /\ c.mClientState = "StreamingSessionInProgress"
        frameValid == latch /\ frameErr = "Success"
    IN  (IF latch THEN <<Call("cxrLatchFrame", -1)>> ELSE <<>>)
        \o (IF latch /\ frameErr = "Not_Connected" THEN <<Call("RequestExit", -1)>> ELSE <<>>)
        \o RenderEyeCalls(c, frameValid, frames[0], 0, fbOK[0])
        \o RenderEyeCalls(c, frameValid, frames[1], 1, fbOK[1])
        \o (IF frameValid THEN <<Call("cxrReleaseFrame", -1)>> ELSE <<>>)
        \o <<Call("SubmitLayers", -1)>>

GetDeviceDesc ==
    [ width |-> 1, height |-> 1,
      receiveAudio |-> GOptions.mReceiveAudio, sendAudio |-> GOptions.mSendAudio ]

\* AppResumedBegin that keeps the input history of the connection before
AppResumedBegin_KeepsHistory(c) ==
    IF ~c.mOvrSession THEN [c |-> RequestExit(c), resume |-> FALSE]
    ELSE [c |-> [c EXCEPT !.connects = 0], resume |-> TRUE]

\* AppResumed up to DetectControllers and the clearing of the input history
AppResumedBegin(c) ==
    IF ~c.mOvrSession THEN [c |-> RequestExit(c), resume |-> FALSE]
    ELSE [c |-> [c EXCEPT !.mLastInputState = [h \in Hands |-> ZeroInputState],
                          !.connects = 0],
          resume |-> TRUE]

\* the loop over supportedRates that picks the last rate less than 1 Hz from
\* the request
MatchRate_Last(rates, requested, fallback) ==
    LET close == {i \in DOMAIN rates :
                    rates[i] - Hz(requested) < Hz(1) /\ Hz(requested) - rates[i] < Hz(1)}
    IN  IF close = {} THEN fallback
        ELSE rates[CHOOSE i \in close : \A j \in close : j <= i]

RECURSIVE MatchRate(_, _, _)
\* the loop over supportedRates: abs(rate - (float)requested) < 1.0f, then break
MatchRate(rates, requested, fallback) ==
    IF rates = <<>> THEN fallback
    ELSE IF Head(rates) - Hz(requested) < Hz(1) /\ Hz(requested) - Head(rates) < Hz(1)
         THEN Head(rates)
         ELSE MatchRate(Tail(rates), requested, fallback)

\* the part of GetDeviceDesc that chooses mTargetDisplayRefresh; setRateOK: the
\* answer of vrapi_SetDisplayRefreshRate
SelectDisplayRefresh(c, setRateOK) ==
    LET target == IF GOptions.mRequestedRefreshRate <= 0 THEN cDefaultDisplayRefresh
                  ELSE IF Len(c.supportedRates) >= 1
                       THEN MatchRate(c.supportedRates, GOptions.mRequestedRefreshRate,
                                      cDefaultDisplayRefresh)
                       ELSE cDefaultDisplayRefresh
    IN  [c EXCEPT !.mTargetDisplayRefresh =
            IF c.mOvrSession /\ ~setRateOK THEN cDefaultDisplayRefresh ELSE target]

\* AppResumed from GetDeviceDesc to its end
AppResumedConnect(c, io) ==
    LET desc == GetDeviceDesc
        c0 == SelectDisplayRefresh(c, io.setRateOK)
        c1 == RecreateSwapchain(RecreateSwapchain(c0, desc.width, desc.height, 0),
                                desc.width, desc.height, 1)
        r  == IF ~c1.Receiver /\ c1.mReadyToConnect
              THEN CreateReceiver(c1, desc, io)
              ELSE [c |-> c1, err |-> "Success"]
    IN  IF r.err # "Success"
        THEN RequestExit(r.c)
        ELSE [(IF ~r.c.async THEN [r.c EXCEPT !.mRenderState = "Running"] ELSE r.c)
                 EXCEPT !.mWasPaused = r.c.mIsPaused]

AppPaused(c) ==
    LET c1 == IF c.Receiver
              THEN LET t == TeardownReceiver(c)
                   IN  IF t.mClientState # "Exiting"
                       THEN [t EXCEPT !.mClientState = "ReadyToConnect",
                                      !.mRenderState = "Loading"]
                       ELSE t
              ELSE c
    IN  [c1 EXCEPT !.SwapChains = [e \in Eyes |-> FALSE],
                   !.hmd        = ZeroHmd,
                   !.EyeWidth   = [e \in Eyes |-> 0],
                   !.EyeHeight  = [e \in Eyes |-> 0],
                   !.mWasPaused = c1.mIsPaused,
                   !.teardowns  = Inc2(@)]

EnterVRMode(c, enterOK) ==
    IF ~c.mOvrSession
    THEN IF enterOK THEN [c |-> [c EXCEPT !.mOvrSession = TRUE], ok |-> TRUE]
                    ELSE [c |-> c, ok |-> FALSE]
    ELSE [c |-> c, ok |-> TRUE]

\* HandleVrModeChanges without the mIsPaused == mWasPaused early return
HandleVrModeChanges_NoGuard(c, enterOK) ==
    IF ~c.mIsPaused /\ c.mNativeWindow /\ c.mClientState # "Exiting"
    THEN LET e == EnterVRMode(c, enterOK)
         IN  IF ~e.ok THEN [c |-> RequestExit(e.c), resume |-> FALSE]
                      ELSE AppResumedBegin(e.c)
    ELSE IF c.mIsPaused \/ c.mClientState = "Exiting"
    THEN [c |-> AppPaused([c EXCEPT !.mOvrSession = FALSE]), resume |-> FALSE]
    ELSE [c |-> c, resume |-> FALSE]

\* HandleVrModeChanges that takes a resume it cannot apply for handled
HandleVrModeChanges_DropsResume(c, enterOK) ==
    IF c.mIsPaused = c.mWasPaused THEN [c |-> c, resume |-> FALSE]
    ELSE IF ~c.mIsPaused /\ c.mNativeWindow /\ c.mClientState # "Exiting"
    THEN LET e == EnterVRMode(c, enterOK)
         IN  IF ~e.ok THEN [c |-> RequestExit(e.c), resume |-> FALSE]
                      ELSE AppResumedBegin(e.c)
    ELSE IF c.mIsPaused \/ c.mClientState = "Exiting"
    THEN [c |-> AppPaused([c EXCEPT !.mOvrSession = FALSE]), resume |-> FALSE]
    ELSE [c |-> [c EXCEPT !.mWasPaused = c.mIsPaused], resume |-> FALSE]

HandleVrModeChanges(c, enterOK) ==
    IF c.mIsPaused = c.mWasPaused THEN [c |-> c, resume |-> FALSE]
    ELSE IF ~c.mIsPaused /\ c.mNativeWindow /\ c.mClientState # "Exiting"
    THEN LET e == EnterVRMode(c, enterOK)
         IN  IF ~e.ok THEN [c |-> RequestExit(e.c), resume |-> FALSE]
                      ELSE AppResumedBegin(e.c)
    ELSE IF c.mIsPaused \/ c.mClientState = "Exiting"
    THEN [c |-> AppPaused([c EXCEPT !.mOvrSession = FALSE]), resume |-> FALSE]
    ELSE [c |-> c, resume |-> FALSE]

SetPaused(c, p) ==
    [c EXCEPT !.mIsPaused = p,
              !.reqs      = IF c.mIsPaused = p THEN 2 ELSE 1,
              !.teardowns = IF p THEN @ ELSE 0]

SetWindow(c, win) == [c EXCEPT !.mNativeWindow = win]

android_handle_cmd(c, cmd) ==
    CASE cmd = "RESUME"      -> SetPaused(c, FALSE)
      [] cmd = "PAUSE"       -> SetPaused(c, TRUE)
      [] cmd = "DESTROY"     -> SetWindow(c, FALSE)
      [] cmd = "INIT_WINDOW" -> SetWindow(c, TRUE)
      [] cmd = "TERM_WINDOW" -> SetWindow(c, FALSE)

(* ---- controller input: ProcessControllers and its callers ---- *)
\* BoolEvent that carries the value the bit had before
BoolEvent_OldValue(t, inputId, bitset) ==
    [clientTimeNS |-> t, clientInputIndex |-> inputId,
     valueType |-> "boolean", value |-> IF bitset THEN 0 ELSE 1]

BoolEvent(t, inputId, bitset) ==
    [clientTimeNS |-> t, clientInputIndex |-> inputId,
     valueType |-> "boolean", value |-> IF bitset THEN 1 ELSE 0]

\* FloatEvent that declares its value a boolean
FloatEvent_AsBoolean(t, inputId, v) ==
    [clientTimeNS |-> t, clientInputIndex |-> inputId, valueType |-> "boolean", value |-> v]

FloatEvent(t, inputId, v) ==
    [clientTimeNS |-> t, clientInputIndex |-> inputId, valueType |-> "float32", value |-> v]

\* the four scalar comparisons
ScalarEvents(last, input, t) ==
    (IF input.IndexTrigger # last.IndexTrigger
        THEN <<FloatEvent(t, 4, input.IndexTrigger)>> ELSE <<>>)
    \o (IF input.GripTrigger # last.GripTrigger
        THEN <<FloatEvent(t, 7, input.GripTrigger)>> ELSE <<>>)
    \o (IF input.JoystickX # last.JoystickX
        THEN <<FloatEvent(t, 10, input.JoystickX)>> ELSE <<>>)
    \o (IF input.JoystickY # last.JoystickY
        THEN <<FloatEvent(t, 11, input.JoystickY)>> ELSE <<>>)

\* the loop over the bits of a mask, from bit i; table is the bit -> input table
RECURSIVE BitEventsFrom(_, _, _, _, _, _)
BitEventsFrom(events, table, mask, lastMask, t, i) ==
    IF i >= Len(table) THEN events
    ELSE LET inputId == table[i + 1]
             bitset  == i \in mask
             oldbit  == i \in lastMask
         IN  IF inputId < 0 THEN BitEventsFrom(events, table, mask, lastMask, t, i + 1)
             ELSE IF bitset # oldbit
             THEN BitEventsFrom(Append(events, BoolEvent(t, inputId, bitset)),
                                table, mask, lastMask, t, i + 1)
             ELSE BitEventsFrom(events, table, mask, lastMask, t, i + 1)

\* BitEvents that reports every mapped bit that is set, changed or not
BitEvents_Level(events, table, mask, lastMask, t) ==
    BitEventsFrom(events, table, mask, {}, t, 0)

BitEvents(events, table, mask, lastMask, t) ==
    IF mask # lastMask THEN BitEventsFrom(events, table, mask, lastMask, t, 0) ELSE events

\* the events of one device: scalars, then buttons, then touches
InputEvents(last, input, t) ==
    BitEvents(BitEvents(ScalarEvents(last, input, t),
                        ovrBitsToInput, input.Buttons, last.Buttons, t),
              ovrTouchToInput, input.Touches, last.Touches, t)

\* what the peer holds for a controller after it has taken the events in order
RECURSIVE Replay(_, _)
Replay(view, events) ==
    IF events = <<>> THEN view
    ELSE Replay([view EXCEPT ![Head(events).clientInputIndex] = Head(events).value],
                Tail(events))

\* SubmitEvents that stores the snapshot whatever the peer answered
SubmitEvents_AlwaysCaches(c, dev, events) ==
    IF events = <<>> THEN [c |-> c, fired |-> <<>>, threw |-> FALSE]
    ELSE [c |-> [c EXCEPT !.mLastInputState[dev.handIndex] = dev.input,
                          !.peerView[dev.handIndex] =
                              IF dev.res.fireOK THEN Replay(@, events) ELSE @],
          fired |-> events, threw |-> ~dev.res.fireOK]

\* the submission of a batch and the update of the cache
SubmitEvents(c, dev, events) ==
    IF events = <<>> THEN [c |-> c, fired |-> <<>>, threw |-> FALSE]
    ELSE IF ~dev.res.fireOK THEN [c |-> c, fired |-> events, threw |-> TRUE]
    ELSE [c |-> [c EXCEPT !.mLastInputState[dev.handIndex] = dev.input,
                          !.peerView[dev.handIndex] = Replay(@, events)],
          fired |-> events, threw |-> FALSE]

\* the client inputs of a Quest controller, by client input index (from 0)
inputPathsQuest ==
    << "/input/system/click", "/input/application_menu/click", "/input/trigger/click",
       "/input/trigger/touch", "/input/trigger/value", "/input/grip/click",
       "/input/grip/touch", "/input/grip/value", "/input/joystick/click",
       "/input/joystick/touch", "/input/joystick/x", "/input/joystick/y",
       "/input/a/click", "/input/b/click", "/input/x/click", "/input/y/click",
       "/input/a/touch", "/input/b/touch", "/input/x/touch", "/input/y/touch",
       "/input/thumb_rest/touch" >>

inputValueTypesQuest ==
    << "boolean", "boolean", "boolean", "boolean", "float32", "boolean", "boolean",
       "float32", "boolean", "boolean", "float32", "float32", "boolean", "boolean",
       "boolean", "boolean", "boolean", "boolean", "boolean", "boolean", "boolean" >>

\* cxrControllerDesc that identifies the controller by the device id of the runtime
ControllerDescOf_DeviceID(dev) ==
    [id |-> dev.DeviceID,
     role |-> IF dev.handIndex = 1 THEN "cxr://input/hand/right" ELSE "cxr://input/hand/left",
     inputPaths |-> inputPathsQuest, inputValueTypes |-> inputValueTypesQuest]

\* the cxrControllerDesc handed to cxrAddController
ControllerDescOf(dev) ==
    [id |-> dev.handIndex,
     role |-> IF dev.handIndex = 1 THEN "cxr://input/hand/right" ELSE "cxr://input/hand/left",
     inputPaths |-> inputPathsQuest, inputValueTypes |-> inputValueTypesQuest]

\* ProcessDevice that gives up the frame when a query of the runtime fails
ProcessDevice_QueryFailureFatal(c, dev) ==
    IF ~dev.res.trackOK \/ ~dev.res.inputOK
    THEN [c |-> c, fired |-> <<>>, threw |-> TRUE]
    ELSE SubmitEvents(c, dev,
                      InputEvents(c.mLastInputState[dev.handIndex], dev.input,
                                  dev.inputTimeNS))

\* one pass of the while loop of ProcessControllers, for the tracked remote dev;
\* fired is the batch handed to cxrFireControllerEvents, threw its fatal error
ProcessDevice(c, dev) ==
    LET h == dev.handIndex
        needAdd == ~c.m_newControllers[h]
        c1 == IF needAdd /\ dev.res.addOK
              THEN [c EXCEPT !.m_newControllers[h] = TRUE, !.registered[h] = TRUE,
                             !.regId[h] = ControllerDescOf(dev).id, !.adds[h] = Inc2(@)]
              ELSE c
    IN  IF needAdd /\ ~dev.res.addOK THEN [c |-> c, fired |-> <<>>, threw |-> FALSE]
        ELSE IF ~dev.res.trackOK THEN [c |-> c1, fired |-> <<>>, threw |-> FALSE]
        ELSE IF ~dev.res.inputOK THEN [c |-> c1, fired |-> <<>>, threw |-> FALSE]
        ELSE SubmitEvents(c1, dev,
                          InputEvents(c1.mLastInputState[h], dev.input, dev.inputTimeNS))

\* devices: the tracked remotes vrapi_EnumerateInputDevices returns, in order
RECURSIVE ProcessDevicesFrom(_, _, _)
ProcessDevicesFrom(r, devices, i) ==
    IF i > Len(devices) \/ r.threw THEN r
    ELSE LET d == ProcessDevice(r.c, devices[i])
         IN  ProcessDevicesFrom(
               [c |-> d.c,
                fired |-> [r.fired EXCEPT ![devices[i].handIndex] = d.fired],
                threw |-> d.threw],
               devices, i + 1)

ProcessControllers(c, devices) ==
    LET none == [c |-> c, fired |-> [h \in Hands |-> <<>>], threw |-> FALSE]
    IN  IF c.mClientState # "StreamingSessionInProgress" THEN none
        ELSE ProcessDevicesFrom(none, devices, 1)

\* the loop of ProcessControllers with its counters: counts is eventCount, peak
\* the largest value an eventCount[handIndex] has had, dirty says that a device
\* was met with a count other than 0; this variant never writes the 0 back
RECURSIVE EventCountsFrom_NoReset(_, _, _)
EventCountsFrom_NoReset(r, devices, i) ==
    IF i > Len(devices) \/ r.threw THEN r
    ELSE LET h == devices[i].handIndex
             d == ProcessDevice(r.c, devices[i])
             n == r.counts[h] + Len(d.fired)
         IN  EventCountsFrom_NoReset(
               [c |-> d.c, threw |-> d.threw,
                counts |-> [r.counts EXCEPT ![h] = n],
                peak   |-> IF n > r.peak THEN n ELSE r.peak,
                dirty  |-> r.dirty \/ r.counts[h] # 0],
               devices, i + 1)

\* the loop of ProcessControllers with its counters: every event is written at
\* events[handIndex][eventCount[handIndex]++], and eventCount[handIndex] = 0
\* ends the turn of a device unless the error of the submission was thrown
RECURSIVE EventCountsFrom(_, _, _)
EventCountsFrom(r, devices, i) ==
    IF i > Len(devices) \/ r.threw THEN r
    ELSE LET h == devices[i].handIndex
             d == ProcessDevice(r.c, devices[i])
             n == r.counts[h] + Len(d.fired)
         IN  EventCountsFrom(
               [c |-> d.c, threw |-> d.threw,
                counts |-> [r.counts EXCEPT ![h] = IF d.threw THEN n ELSE 0],
                peak   |-> IF n > r.peak THEN n ELSE r.peak,
                dirty  |-> r.dirty \/ r.counts[h] # 0],
               devices, i + 1)

\* uint32_t eventCount[MAX_CONTROLLERS] = {} and the loop over the devices
EventCounts(c, devices) ==
    LET none == [c |-> c, threw |-> FALSE, counts |-> [h \in Hands |-> 0],
                 peak |-> 0, dirty |-> FALSE]
    IN  IF c.mClientState # "StreamingSessionInProgress" THEN none
        ELSE EventCountsFrom(none, devices, 1)

\* truncf(ipd * 10000.0f) / 10000.0f, the distance counted in 1/100 mm
TruncateIpd(ipd) == (ipd \div 10) * 10

\* std::fminf(mTargetDisplayRefresh, 90.0f)
ClampRefresh(rate) == IF rate < Hz(90) THEN rate ELSE Hz(90)

\* DoTracking after ProcessControllers: the sample of the head; tracking is
\* what vrapi_GetPredictedTracking2 returns
SampleHmd(c, tracking) ==
    LET flags == {"HasIPD"} \cup (IF c.mRefreshChanged THEN {"HasRefresh"} ELSE {})
    IN  [c EXCEPT !.hmd = [ipd            |-> TruncateIpd(tracking.ipd),
                           flags          |-> flags,
                           displayRefresh |-> IF c.mRefreshChanged
                                              THEN ClampRefresh(c.mTargetDisplayRefresh)
                                              ELSE @.displayRefresh,
                           poseIsValid       |-> tracking.orientationValid,
                           deviceIsConnected |-> tracking.hmdConnected],
                  !.mRefreshChanged = FALSE]

DoTracking(c, tracking, devices) ==
    LET r == ProcessControllers(c, devices)
    IN  IF r.threw THEN r ELSE [r EXCEPT !.c = SampleHmd(r.c, tracking)]

\* hasOut: the trackingState pointer is not null
GetTrackingState(c, hasOut, tracking, devices) ==
    IF ~hasOut THEN [c |-> c, fired |-> [h \in Hands |-> <<>>], threw |-> FALSE]
    ELSE DoTracking(c, tracking, devices)

\* HandleVrApiEvents for one VRAPI_EVENT_DISPLAY_REFRESH_RATE_CHANGE
RefreshRateChange(c, toDisplayRefreshRate) ==
    [c EXCEPT !.mTargetDisplayRefresh = toDisplayRefreshRate, !.mRefreshChanged = TRUE]

(* ---- the native thread: android_main and MainLoop ---- *)
MainLoopTop ==
    /\ pc = "top"
    /\ pc' = IF ~destroyRequested /\ cx.mClientState # "Exiting" THEN "poll" ELSE "returned"
    /\ UNCHANGED <<cx, pending, destroyRequested, GOptions, launched, ctlvars>>

\* one event read by ALooper_pollAll and processed by source->process
MainLoopPollEvent ==
    /\ pc = "poll"
    /\ pending # <<>>
    /\ cx' = android_handle_cmd(cx, Head(pending))
    /\ destroyRequested' = (destroyRequested \/ Head(pending) = "DESTROY")
    /\ pending' = Tail(pending)
    /\ UNCHANGED <<pc, GOptions, launched, ctlvars>>

\* ALooper_pollAll times out: no event is pending
MainLoopPollDone ==
    /\ pc = "poll"
    /\ pending = <<>>
    /\ pc' = "update"
    /\ UNCHANGED <<cx, pending, destroyRequested, GOptions, launched, ctlvars>>

MainLoopUpdateClientState ==
    /\ pc = "update"
    /\ cx' = UpdateClientState(cx)
    /\ pc' = "vrmode"
    /\ UNCHANGED <<pending, destroyRequested, GOptions, launched, ctlvars>>

MainLoopHandleVrModeChanges ==
    /\ pc = "vrmode"
    /\ \E enterOK \in BOOLEAN :
         LET r == HandleVrModeChanges(cx, enterOK)
         IN  /\ cx' = r.c
             /\ pc' = IF r.resume THEN "resume" ELSE "vrapi"
    /\ UNCHANGED <<pending, destroyRequested, GOptions, launched, ctlvars>>

MainLoopAppResumed ==
    /\ pc = "resume"
    /\ \E pb \in PlaybackResults, rec \in RecordingResults, cr \in BOOLEAN, co \in BOOLEAN,
          sr \in BOOLEAN :
         cx' = AppResumedConnect(cx, [playback |-> pb, recording |-> rec,
                                      createOK |-> cr, connectOK |-> co,
                                      setRateOK |-> sr])
    /\ pc' = "vrapi"
    /\ UNCHANGED <<pending, destroyRequested, GOptions, launched, ctlvars>>

\* MainLoop without the test 'if (mOvrSession == NULL) continue'
MainLoopHandleVrApiEvents_AlwaysRenders ==
    /\ pc = "vrapi"
    /\ pc' = "render"
    /\ UNCHANGED <<cx, pending, destroyRequested, GOptions, launched, ctlvars>>

MainLoopHandleVrApiEvents ==
    /\ pc = "vrapi"
    /\ pc' = IF ~cx.mOvrSession THEN "top" ELSE "render"
    /\ UNCHANGED <<cx, pending, destroyRequested, GOptions, launched, ctlvars>>

\* errs: what cxrLatchFrame may answer; dims: the sizes a video frame may have
RenderStep(errs, dims) ==
    /\ pc = "render"
    /\ \/ /\ cx.mRenderState \in {"Loading", "Exiting"}   \* RenderLoadScreen / RenderExitScreen
          /\ cx' = cx
       \/ /\ cx.mRenderState = "Running"
          /\ \E frameErr \in errs,
                vf \in [widthFinal : dims, heightFinal : dims] :
                cx' = Render(cx, frameErr, [eye \in Eyes |-> vf])
    /\ pc' = "top"
    /\ UNCHANGED <<pending, destroyRequested, GOptions, launched, ctlvars>>

MainLoopRender == RenderStep(LatchResults, Dims)

\* android_main after MainLoop has returned
Release ==
    /\ pc = "returned"
    /\ cx' = [cx EXCEPT !.mOvrSession = FALSE]
    /\ pc' = "released"
    /\ UNCHANGED <<pending, destroyRequested, GOptions, launched, ctlvars>>

(* ---- the other threads ---- *)
\* the activity thread writes a lifecycle command to the looper
HostCommand(cmd) ==
    /\ pc \notin {"released", "aborted"}
    /\ ~destroyRequested
    /\ Len(pending) < MaxPending
    /\ pending' = Append(pending, cmd)
    /\ cx' = [cx EXCEPT !.recov = IF @ = 1 /\ cmd = "PAUSE" THEN 2
                                  ELSE IF @ = 2 /\ cmd = "RESUME" THEN 3
                                  ELSE @]
    /\ UNCHANGED <<pc, destroyRequested, GOptions, launched, ctlvars>>

\* s_clientProxy.UpdateClientState, called on a thread of the peer
ClientProxyUpdateClientState(c, state) == [c EXCEPT !.mClientState = state]

PeerUpdateClientState(state) ==
    /\ pc \notin {"released", "aborted"}
    /\ cx.Receiver
    /\ cx' = ClientProxyUpdateClientState(cx, state)
    /\ UNCHANGED <<pc, pending, destroyRequested, GOptions, launched, ctlvars>>

\* Java_..._nativeHandleLaunchOptions, called once on the Java thread
HandleLaunchOptions(c, opts, testLatency) ==
    IF opts.mServerIP THEN [c EXCEPT !.mReadyToConnect = TRUE]
    ELSE IF ~testLatency THEN RequestExit(c)
    ELSE c

LaunchOptions(ip, testLatency) == [ip EXCEPT !.mServerIP = @ /\ ~testLatency]

nativeHandleLaunchOptions ==
    /\ pc \notin {"released", "aborted"}
    /\ ~launched
    /\ \E ip \in BOOLEAN, ra \in BOOLEAN, sa \in BOOLEAN, testLatency \in BOOLEAN :
         LET opts == LaunchOptions([mServerIP |-> ip, mReceiveAudio |-> ra,
                                    mSendAudio |-> sa, mRequestedRefreshRate |-> 0],
                                   testLatency)
         IN  /\ GOptions' = opts
             /\ cx' = HandleLaunchOptions(cx, opts, testLatency)
    /\ launched' = TRUE
    /\ UNCHANGED <<pc, pending, destroyRequested, ctlvars>>

Next ==
    \/ MainLoopTop
    \/ MainLoopPollEvent
    \/ MainLoopPollDone
    \/ MainLoopUpdateClientState
    \/ MainLoopHandleVrModeChanges
    \/ MainLoopAppResumed
    \/ MainLoopHandleVrApiEvents
    \/ MainLoopRender
    \/ Release
    \/ \E cmd \in Commands : HostCommand(cmd)
    \/ \E state \in PeerStates : PeerUpdateClientState(state)
    \/ nativeHandleLaunchOptions

Spec == Init /\ [][Next]_vars

(* ======================================================================= *)
(* The controller class on its own: registration and binding (SpecMap),    *)
(* event normalisation (SpecEvents) and pose updates (SpecPose)            *)
(* ======================================================================= *)
ControllerDescs ==
    UNION {[role : Roles, inputPaths : [1..n -> InputPathSet],
            inputValueTypes : [1..n -> ValueTypes]] : n \in 0..MaxInputs}

\* the descriptions used where the value types play no part: a left-hand
\* controller with boolean inputs
BooleanDescs ==
    {d \in ControllerDescs :
        /\ d.role = "cxr://input/hand/left"
        /\ \A i \in DOMAIN d.inputValueTypes : d.inputValueTypes[i] = "boolean"}

\* cxrControllerEvent: the payload is the input index and the type of the value
ControllerEvents ==
    [clientInputIndex : 0..MaxInputs, valueType : ValueTypes]

TrackingSamples ==
    [deviceIsConnected : BOOLEAN, poseIsValid : BOOLEAN, rotation : Rotations,
     position : Coords, velocity : Coords, acceleration : Coords,
     angularAcceleration : Coords, angularVelocity : Coords]

DoRegisterController(desc) ==
    /\ ctl' = RegisterController(ctl, desc)
    /\ UNCHANGED <<appvars, serverQueue>>

SetServerInputs(inputPaths, inputTypes) ==
    /\ ctl' = [ctl EXCEPT !.m_actionMap = RegisterServerInputs(@, inputPaths, inputTypes)]
    /\ UNCHANGED <<appvars, serverQueue>>

SetServerActions(actionPaths) ==
    /\ ctl' = [ctl EXCEPT !.m_actionMap = RegisterActions(@, actionPaths)]
    /\ UNCHANGED <<appvars, serverQueue>>

SetProfile(profile) ==
    /\ ctl' = [ctl EXCEPT !.m_actionMap = BindProfile(@, profile)]
    /\ UNCHANGED <<appvars, serverQueue>>

DoHandleModernEvents(events) ==
    /\ Len(serverQueue) + Len(events) <= MaxQueue
    /\ LET r == HandleModernEvents(ctl, serverQueue, events)
       IN  /\ ctl' = r.k
           /\ serverQueue' = r.queue
    /\ UNCHANGED appvars

DoUpdate(state) ==
    /\ ctl' = Update(ctl, state)
    /\ UNCHANGED <<appvars, serverQueue>>

NextMap ==
    \/ \E desc \in BooleanDescs : DoRegisterController(desc)
    \/ \E n \in 0..MaxServerInputs :
         \E inputPaths \in [1..n -> InputPathSet], inputTypes \in [1..n -> ValueTypes] :
            SetServerInputs(inputPaths, inputTypes)
    \/ \E actionPaths \in Arrays(ActionPathSet, MaxActions) : SetServerActions(actionPaths)
    \/ \E profile \in Profiles : SetProfile(profile)

SpecMap == Init /\ [][NextMap]_vars

\* a controller that has been registered, given its actions and bound to a profile
InitEvents ==
    /\ InitApp
    /\ serverQueue = <<>>
    /\ \E desc \in BooleanDescs, actionPaths \in Arrays(ActionPathSet, MaxActions),
          profile \in Profiles :
         ctl = [RegisterController(CloudXRController(TRUE, TRUE), desc)
                  EXCEPT !.m_actionMap = BindProfile(RegisterActions(@, actionPaths), profile)]

NextEvents ==
    \E events \in Arrays(ControllerEvents, MaxQueue) : DoHandleModernEvents(events)

SpecEvents == InitEvents /\ [][NextEvents]_vars

InitPose ==
    /\ InitApp
    /\ serverQueue = <<>>
    /\ \E devOK \in BOOLEAN, angularVelInDevSpace \in BOOLEAN :
         ctl = CloudXRController(devOK, angularVelInDevSpace)

NextPose ==
    \E state \in TrackingSamples : DoUpdate(state)

SpecPose == InitPose /\ [][NextPose]_vars

(* ======================================================================= *)
(* Controller input of a streaming client (SpecInput) and of a client that *)
(* is paused and resumed (SpecSession)                                     *)
(* ======================================================================= *)
\* s_clientProxy.GetTrackingState, called on a thread of the peer with a
\* tracking state to fill; the error thrown by ProcessControllers is caught
\* nowhere and ends the process
PeerGetTrackingState(tracking, devices) ==
    /\ pc \notin {"released", "aborted"}
    /\ cx.Receiver
    /\ LET r == GetTrackingState(cx, TRUE, tracking, devices)
       IN  /\ cx' = r.c
           /\ pc' = IF r.threw THEN "aborted" ELSE pc
    /\ UNCHANGED <<pending, destroyRequested, GOptions, launched, ctlvars>>

\* the launch options of a client that connects, without audio
ConnectOptions ==
    LaunchOptions([mServerIP |-> TRUE, mReceiveAudio |-> FALSE, mSendAudio |-> FALSE,
                   mRequestedRefreshRate |-> 0], FALSE)

AllOK == [playback |-> "ok", recording |-> "ok", createOK |-> TRUE, connectOK |-> TRUE,
          setRateOK |-> TRUE]

\* the client after the launch options, RESUME, INIT_WINDOW, the entry into VR
\* mode, the connection and the peer's report that the session is streaming
\* (reads GOptions)
StreamingClient ==
    LET c1 == HandleLaunchOptions(InitClient, ConnectOptions, FALSE)
        c2 == android_handle_cmd(android_handle_cmd(c1, "RESUME"), "INIT_WINDOW")
        c3 == HandleVrModeChanges(UpdateClientState(c2), TRUE).c
        c4 == AppResumedConnect(c3, AllOK)
    IN  UpdateClientState(ClientProxyUpdateClientState(c4, "StreamingSessionInProgress"))

InitInput ==
    /\ GOptions = ConnectOptions
    /\ launched = TRUE
    /\ cx = StreamingClient
    /\ pc = "top"
    /\ pending = <<>>
    /\ destroyRequested = FALSE
    /\ ctl = CloudXRController(TRUE, TRUE)
    /\ serverQueue = <<>>

NextInput ==
    \E devices \in DeviceLists : PeerGetTrackingState(StillHead, devices)

SpecInput == InitInput /\ [][NextInput]_vars

(* ======================================================================= *)
(* Snapshots in which every bit changes at once (SpecBuffer)               *)
(* ======================================================================= *)
\* the bits of a mask the table gives an input to
MappedBits(table) == {i \in 0..(Len(table) - 1) : table[i + 1] >= 0}

\* the snapshots of one controller.  Masks: nothing set, every mapped bit set,
\* every bit of the table set.  The four scalars: all at rest, all moved, the
\* index trigger alone
BufferSnapshots ==
    LET MaskChoices(table) == {{}, MappedBits(table), 0..(Len(table) - 1)}
        ScalarChoices ==
            {[IndexTrigger |-> i, GripTrigger |-> g, JoystickX |-> g, JoystickY |-> g] :
                i \in ScalarValues, g \in ScalarValues}
                    \ {[IndexTrigger |-> 0, GripTrigger |-> 1,
                        JoystickX |-> 1, JoystickY |-> 1]}
    IN  {[Buttons |-> b, Touches |-> t, IndexTrigger |-> sc.IndexTrigger,
          GripTrigger |-> sc.GripTrigger, JoystickX |-> sc.JoystickX,
          JoystickY |-> sc.JoystickY] :
            b \in MaskChoices(ovrBitsToInput), t \in MaskChoices(ovrTouchToInput),
            sc \in ScalarChoices}

\* the enumerations: one device of any kind, or two devices of which each has
\* nothing held or everything held, and every call succeeds
BufferLists ==
    LET BufferDevices ==
            [handIndex : Hands, DeviceID : DeviceIDs, input : BufferSnapshots,
             inputTimeNS : {1}, res : DeviceResults]
        BufferExtremes ==
            {d \in BufferDevices :
                /\ Sampled(d.res) /\ d.res.fireOK
                /\ d.input.Buttons # 0..(Len(ovrBitsToInput) - 1)
                /\ d.input.Touches # 0..(Len(ovrTouchToInput) - 1)
                /\ (d.input.Buttons = {}) = (d.input.Touches = {})
                /\ (d.input.Buttons = {}) = (d.input.IndexTrigger = 0)
                /\ d.input.GripTrigger = d.input.IndexTrigger}
    IN  {<<d>> : d \in BufferDevices}
            \cup {<<d, e>> : d \in BufferExtremes, e \in BufferExtremes}

NextBuffer ==
    \E devices \in BufferLists : PeerGetTrackingState(StillHead, devices)

SpecBuffer == InitInput /\ [][NextBuffer]_vars

\* the client once the launch options, with a server address, have been handled
InitSession ==
    /\ GOptions = ConnectOptions
    /\ launched = TRUE
    /\ cx = HandleLaunchOptions(InitClient, ConnectOptions, FALSE)
    /\ pc = "top"
    /\ pending = <<>>
    /\ destroyRequested = FALSE
    /\ ctl = CloudXRController(TRUE, TRUE)
    /\ serverQueue = <<>>

\* a session in which every device call succeeds, every frame arrives in the
\* size of the device, and the activity is resumed, given a window and paused
SessionLists == {<<d>> : d \in {x \in SessionDevices : Sampled(x.res) /\ x.res.fireOK}}
SessionCommands == {"RESUME", "INIT_WINDOW", "PAUSE"}

NextSession ==
    \/ MainLoopTop
    \/ MainLoopPollEvent
    \/ MainLoopPollDone
    \/ MainLoopUpdateClientState
    \/ MainLoopHandleVrModeChanges
    \/ MainLoopAppResumed
    \/ MainLoopHandleVrApiEvents
    \/ RenderStep({"Success"}, {GetDeviceDesc.width})
    \/ Release
    \/ \E cmd \in SessionCommands : HostCommand(cmd)
    \/ \E state \in PeerStates : PeerUpdateClientState(state)
    \/ \E devices \in SessionLists : PeerGetTrackingState(StillHead, devices)

SpecSession == InitSession /\ [][NextSession]_vars

(* ======================================================================= *)
(* The samples of the head of a streaming client (SpecHmd)                 *)
(* ======================================================================= *)
\* the native thread, in HandleVrApiEvents, reads a change of the display rate
VrApiRefreshRateChange(rate) ==
    /\ pc \notin {"released", "aborted"}
    /\ cx.mOvrSession
    /\ cx' = RefreshRateChange(cx, rate)
    /\ UNCHANGED <<pc, pending, destroyRequested, GOptions, launched, ctlvars>>

NextHmd ==
    \/ \E tracking \in HmdSamples : PeerGetTrackingState(tracking, <<>>)
    \/ \E rate \in RefreshRates : VrApiRefreshRateChange(rate)

SpecHmd == InitInput /\ [][NextHmd]_vars

(* ======================================================================= *)
(* A change of the display rate while a sample is taken (SpecRefreshRace)  *)
(* ======================================================================= *)
\* DoTracking on a thread of the peer, up to and including the block that reads
\* mRefreshChanged and mTargetDisplayRefresh; when the flag was set, the write
\* mRefreshChanged = false is still to come
PeerRefreshRead(tracking) ==
    /\ pc \notin {"released", "aborted"}
    /\ cx.Receiver
    /\ ~cx.sampling
    /\ cx' = [SampleHmd(cx, tracking) EXCEPT !.mRefreshChanged = cx.mRefreshChanged,
                                             !.sampling = cx.mRefreshChanged]
    /\ UNCHANGED <<pc, pending, destroyRequested, GOptions, launched, ctlvars>>

\* mRefreshChanged = false, and the rest of the sample
PeerRefreshClear ==
    /\ pc \notin {"released", "aborted"}
    /\ cx.Receiver
    /\ cx.sampling
    /\ cx' = [cx EXCEPT !.mRefreshChanged = FALSE, !.sampling = FALSE]
    /\ UNCHANGED <<pc, pending, destroyRequested, GOptions, launched, ctlvars>>

PeerSample ==
    \/ \E tracking \in HmdSamples : PeerRefreshRead(tracking)
    \/ PeerRefreshClear

NextRefreshRace ==
    \/ PeerSample
    \/ \E rate \in RefreshRates : VrApiRefreshRateChange(rate)

\* the peer keeps asking for samples while the session streams
SpecRefreshRace == InitInput /\ [][NextRefreshRace]_vars /\ WF_vars(PeerSample)

(* ======================================================================= *)
(* The threads of a session: the native thread in MainLoop and the thread  *)
(* of the peer that calls GetTrackingState (SpecThreads)                   *)
(* ======================================================================= *)
\* the peer calls s_clientProxy.GetTrackingState on a thread of its own
PeerTrackingBegin ==
    /\ pc \notin {"released", "aborted"}
    /\ cx.Receiver
    /\ ~cx.sampling
    /\ cx' = [cx EXCEPT !.sampling = TRUE]
    /\ UNCHANGED <<pc, pending, destroyRequested, GOptions, launched, ctlvars>>

\* the callback has run DoTracking and returns
PeerTrackingEnd(tracking, devices) ==
    /\ pc \notin {"released", "aborted"}
    /\ cx.Receiver
    /\ cx.sampling
    /\ LET r == GetTrackingState(cx, TRUE, tracking, devices)
       IN  /\ cx' = [r.c EXCEPT !.sampling = FALSE]
           /\ pc' = IF r.threw THEN "aborted" ELSE pc
    /\ UNCHANGED <<pending, destroyRequested, GOptions, launched, ctlvars>>

NextThreads ==
    \/ MainLoopTop
    \/ MainLoopPollEvent
    \/ MainLoopPollDone
    \/ MainLoopUpdateClientState
    \/ MainLoopHandleVrModeChanges
    \/ MainLoopAppResumed
    \/ MainLoopHandleVrApiEvents
    \/ RenderStep({"Success"}, {GetDeviceDesc.width})
    \/ Release
    \/ \E cmd \in SessionCommands : HostCommand(cmd)
    \/ \E state \in PeerStates : PeerUpdateClientState(state)
    \/ PeerTrackingBegin
    \/ \E devices \in SessionLists : PeerTrackingEnd(StillHead, devices)

SpecThreads == InitSession /\ [][NextThreads]_vars

(* ======================================================================= *)
(* The frames of a client that has been resumed (SpecRender)               *)
(* ======================================================================= *)
\* the launch options of the local latency test: the server address is cleared
LatencyOptions ==
    LaunchOptions([mServerIP |-> TRUE, mReceiveAudio |-> FALSE, mSendAudio |-> FALSE,
                   mRequestedRefreshRate |-> 0], TRUE)

\* the client of the latency test after RESUME, INIT_WINDOW and the entry into
\* VR mode: it renders without a receiver (reads GOptions)
LatencyTestClient ==
    LET c1 == HandleLaunchOptions(InitClient, LatencyOptions, TRUE)
        c2 == android_handle_cmd(android_handle_cmd(c1, "RESUME"), "INIT_WINDOW")
        c3 == HandleVrModeChanges(UpdateClientState(c2), TRUE).c
    IN  UpdateClientState(AppResumedConnect(c3, AllOK))

InitRender ==
    /\ GOptions \in {ConnectOptions, LatencyOptions}
    /\ launched = TRUE
    /\ cx = IF GOptions.mServerIP THEN StreamingClient ELSE LatencyTestClient
    /\ pc = "top"
    /\ pending = <<>>
    /\ destroyRequested = FALSE
    /\ ctl = CloudXRController(TRUE, TRUE)
    /\ serverQueue = <<>>

\* the main loop of a client the activity sends no command to
NextRender ==
    \/ MainLoopTop
    \/ MainLoopPollDone
    \/ MainLoopUpdateClientState
    \/ MainLoopHandleVrModeChanges
    \/ MainLoopHandleVrApiEvents
    \/ MainLoopRender
    \/ Release
    \/ \E state \in PeerStates : PeerUpdateClientState(state)

SpecRender == InitRender /\ [][NextRender]_vars

\* the steps of the native thread inside MainLoop and after it
MainLoopStep ==
    \/ MainLoopTop
    \/ MainLoopPollDone
    \/ MainLoopUpdateClientState
    \/ MainLoopHandleVrModeChanges
    \/ MainLoopHandleVrApiEvents
    \/ MainLoopRender
    \/ Release

\* the same client when the native thread keeps running: no event of the
\* activity is pending, and the threads of the peer run as they like
SpecExit == SpecRender /\ WF_vars(MainLoopStep)

(* ======================================================================= *)
(* The display rate chosen when the client resumes (SpecRefresh)           *)
(* ======================================================================= *)
MaxRates == 2

\* display rates a runtime may report: 72, 80, 89.5, 90, 90.5 and 120 Hz
RateSet == {Hz(72), Hz(80), Hz(90) - 1, Hz(90), Hz(90) + 1, Hz(120)}

SupportedLists == Arrays(RateSet, MaxRates) \cup {QuestRates}

\* values of the launch option for the display rate, in whole hertz (0: not given)
Requests == {0, 72, 90, 91, 100}

RefreshOptions(requested) == [ConnectOptions EXCEPT !.mRequestedRefreshRate = requested]

\* the client after the launch options, RESUME, INIT_WINDOW and the entry into
\* VR mode, about to run the rest of AppResumed on a headset that reports rates
ResumingClient(rates) ==
    LET c1 == HandleLaunchOptions(InitClient, ConnectOptions, FALSE)
        c2 == android_handle_cmd(android_handle_cmd(c1, "RESUME"), "INIT_WINDOW")
        c3 == HandleVrModeChanges(UpdateClientState(c2), TRUE).c
    IN  [c3 EXCEPT !.supportedRates = rates]

InitRefresh ==
    /\ GOptions \in {RefreshOptions(requested) : requested \in Requests}
    /\ launched = TRUE
    /\ cx \in {ResumingClient(rates) : rates \in SupportedLists}
    /\ pc = "resume"
    /\ pending = <<>>
    /\ destroyRequested = FALSE
    /\ ctl = CloudXRController(TRUE, TRUE)
    /\ serverQueue = <<>>

NextRefresh == MainLoopAppResumed

SpecRefresh == InitRefresh /\ [][NextRefresh]_vars

TypeOK ==
    /\ cx.mClientState \in ClientStates
    /\ cx.mRenderState \in RenderStates
    /\ pc \in {"top", "poll", "update", "vrmode", "resume", "vrapi", "render",
               "returned", "released", "aborted"}
    /\ Len(pending) <= MaxPending
(* ======================================================================= *)
(* Claims                                                                  *)
(* ======================================================================= *)
Failures == {"ConnectionAttemptFailed", "Disconnected"}

PeerCallbackStep == \E state \in PeerStates : PeerUpdateClientState(state)

\* the handles a pause tears down and a resume sets up
Handles == <<cx.mOvrSession, cx.SwapChains, cx.EyeWidth, cx.EyeHeight, cx.Receiver,
             cx.liveReceivers, cx.playbackStream, cx.recordingStream>>

\* steps of the native thread
UpdateStep == pc = "update" /\ pc' = "vrmode"
VrModeStep == pc = "vrmode" /\ pc' \in {"resume", "vrapi"}
ConnectStep == pc = "resume" /\ pc' = "vrapi"

\* HandleVrModeChanges applies a pause request
PauseApplied == VrModeStep /\ cx.mIsPaused /\ ~cx.mWasPaused

\* C1: once ClientState is Exiting it is Exiting in every later state.
C1_ExitingSticky ==
    [][cx.mClientState = "Exiting" => cx'.mClientState = "Exiting"]_vars

\* C2: UpdateClientState turns a reported ConnectionAttemptFailed or Disconnected
\* into RenderState Exiting, and once that has happened no peer callback changes
\* ClientState or RenderState.
C2_FailureExitsAndSticks ==
    [][ /\ (UpdateStep /\ cx.mClientState \in Failures
               => cx'.mRenderState = "Exiting")
        /\ (PeerCallbackStep /\ cx.recov >= 1
               => /\ cx'.mClientState = cx.mClientState
                  /\ cx'.mRenderState = cx.mRenderState) ]_vars

\* C3: the first pause request after a resume runs AppPaused once; a further
\* pause request changes no handle and runs no teardown; a resume request while
\* resumed changes no handle and starts no resume transition.
C3_PauseResumeIdempotent ==
    [][ /\ (VrModeStep /\ cx.mIsPaused /\ cx.mWasPaused
               => Handles' = Handles /\ cx'.teardowns = cx.teardowns)
        /\ (PauseApplied => cx'.teardowns = 1)
        /\ (VrModeStep /\ ~cx.mIsPaused /\ ~cx.mWasPaused
               => Handles' = Handles /\ pc' # "resume")
        /\ cx'.teardowns <= 1 ]_vars

\* two pause requests in a row have been processed after a connection was torn down
C3_Witness ==
    /\ pc = "vrapi"
    /\ cx.reqs = 2 /\ cx.mIsPaused /\ cx.mWasPaused
    /\ cx.teardowns = 1
    /\ cx.playbackStream = "closed"

\* C4: a pause applied while ClientState is not Exiting leaves ClientState
\* ReadyToConnect and RenderState Loading.
C4_PauseResetsStates ==
    [][PauseApplied /\ cx.mClientState # "Exiting"
          => cx'.mClientState = "ReadyToConnect" /\ cx'.mRenderState = "Loading"]_vars

\* C5: after a pause has been applied there is no receiver, no audio stream is
\* open, both swapchains are null with eye sizes 0 and the VR session is left.
C5_PauseTearsDown ==
    [][PauseApplied
          => /\ ~cx'.Receiver /\ cx'.liveReceivers = 0
             /\ cx'.playbackStream # "open" /\ cx'.recordingStream # "open"
             /\ \A e \in Eyes : /\ ~cx'.SwapChains[e]
                                /\ cx'.EyeWidth[e] = 0 /\ cx'.EyeHeight[e] = 0
             /\ ~cx'.mOvrSession ]_vars

\* a pause has torn down a connection that had both audio streams open
C5_Witness ==
    /\ pc = "vrapi" /\ cx.mIsPaused /\ cx.mWasPaused
    /\ cx.teardowns = 1 /\ ~cx.Receiver
    /\ cx.playbackStream = "closed" /\ cx.recordingStream = "closed"
    /\ cx.mClientState = "ReadyToConnect"

\* C6 as stated: in every state StreamingSessionInProgress implies Running.
C6_StreamingImpliesRunning ==
    cx.mClientState = "StreamingSessionInProgress" => cx.mRenderState = "Running"

\* C6 amended: every UpdateClientState call of the main loop that finds
\* ClientState = StreamingSessionInProgress leaves RenderState = Running.
C6_UpdateMakesRunning ==
    [][UpdateStep /\ cx.mClientState = "StreamingSessionInProgress"
          => cx'.mRenderState = "Running"]_vars

\* the main loop has taken over a reported streaming session
C6_Witness ==
    /\ pc = "vrmode"
    /\ cx.mClientState = "StreamingSessionInProgress"
    /\ cx.mRenderState = "Running"
    /\ cx.Receiver

\* C7: in every state ClientState = Exiting implies RenderState = Exiting.
C7_ExitingMirrored ==
    cx.mClientState = "Exiting" => cx.mRenderState = "Exiting"

\* C8: RenderState becomes Running only with ClientState
\* StreamingSessionInProgress (reported by the peer, or set by a synchronous
\* connect); in particular a resume without a connection attempt leaves it alone.
C8_RunningOnlyWhenStreaming ==
    [][cx.mRenderState # "Running" /\ cx'.mRenderState = "Running"
          => cx'.mClientState = "StreamingSessionInProgress"]_vars

\* C9: a receiver is created and connected only by the resume transition, at
\* most once per resume, only when no receiver exists and the server address is
\* known; never more than one receiver exists.
C9_ConnectOnlyInResume ==
    [][ /\ (cx'.connects > cx.connects \/ cx'.liveReceivers > cx.liveReceivers
               => /\ ConnectStep
                  /\ ~cx.Receiver /\ cx.liveReceivers = 0
                  /\ cx.mReadyToConnect /\ GOptions.mServerIP)
        /\ cx'.connects <= 1
        /\ cx'.liveReceivers <= 1 ]_vars

\* a resume has just created and connected the one receiver, with both audio streams
C9_Witness ==
    /\ cx.Receiver /\ cx.liveReceivers = 1 /\ cx.connects = 1
    /\ cx.recordingStream = "open" /\ cx.playbackStream = "open"
    /\ pc = "vrapi"

\* C10 as stated: a pause followed by a resume, issued after a failure has been
\* handled, leads to a new connection attempt; so the process never finishes
\* with such a request unanswered.
C10_PauseResumeRecovers ==
    ~(pc = "released" /\ cx.recov = 3)

\* C10 amended: handling a failure makes ClientState Exiting; while ClientState
\* is Exiting no resume transition starts and no connection attempt is made.
C10_NoRecoveryWhileExiting ==
    [][ /\ (UpdateStep /\ cx.mClientState \in Failures
               => cx'.mClientState = "Exiting")
        /\ (VrModeStep /\ cx.mClientState = "Exiting" => pc' # "resume")
        /\ (cx'.connects > cx.connects => cx.mClientState # "Exiting") ]_vars

\* the process has finished although a pause and a resume were issued after the failure
C10_Witness ==
    /\ pc = "released"
    /\ cx.recov = 3
    /\ cx.mClientState = "Exiting"
(* ---- claims about the controller class ---- *)
ActionMap == ctl.m_actionMap

\* the input paths a profile binds to a registered action, among those the
\* client vocabulary cp knows
Usable(cp, ap, profile) ==
    {p \in DOMAIN profile \cap DOMAIN cp : profile[p] \in DOMAIN ap}

\* C11: no registered server action has index 0, and so no entry of the remap
\* table resolves to 0.
C11_ZeroReserved ==
    /\ \A a \in DOMAIN ActionMap.m_serverActionPaths :
          ActionMap.m_serverActionPaths[a] # 0
    /\ \A i \in DOMAIN ActionMap.m_inputToActionRemap : GetActionIndex(ActionMap, i) # 0

\* the events of a batch whose client input the stored profile binds to a
\* registered action, each with the index of that action, in input order
IsBound(am, i) ==
    \E p \in Usable(am.m_clientInputPaths, am.m_serverActionPaths, am.m_actionProfile) :
        am.m_clientInputPaths[p] = i
BoundAction(am, i) ==
    LET p == CHOOSE q \in Usable(am.m_clientInputPaths, am.m_serverActionPaths,
                                 am.m_actionProfile) : am.m_clientInputPaths[q] = i
    IN  am.m_serverActionPaths[am.m_actionProfile[p]]
Normalized(am, events) ==
    LET kept == SelectSeq(events, LAMBDA e : IsBound(am, e.clientInputIndex))
    IN  [j \in 1..Len(kept) |->
            [actionIndex |-> BoundAction(am, kept[j].clientInputIndex),
             clientEvent |-> kept[j]]]

\* C12: HandleModernEvents appends, in input order, one normalized event for
\* every raw event whose client input is bound to a registered action, appends
\* nothing for the others and keeps what the queue held.
C12_EventsNormalized ==
    \A events \in Arrays(ControllerEvents, MaxQueue) :
       HandleModernEvents(ctl, serverQueue, events).queue
          = serverQueue \o Normalized(ActionMap, events)

\* C13 as stated: after a bind, GetActionIndex(i) is the index of the action the
\* profile binds the path registered at array offset i to, and 0 for every
\* other index.
C13_ResolveByOffset ==
    \A profile \in Profiles :
       LET am == BindProfile(ActionMap, profile)
       IN  \A i \in 0..MaxInputs :
              LET bound == /\ i < Len(am.regPaths)
                           /\ am.regPaths[i + 1] \in DOMAIN profile
                           /\ profile[am.regPaths[i + 1]] \in DOMAIN am.m_serverActionPaths
              IN  GetActionIndex(am, i) =
                     IF bound THEN am.m_serverActionPaths[profile[am.regPaths[i + 1]]]
                     ELSE 0

\* C13 amended: after a bind, GetActionIndex(i) is the index of action X when i
\* is the index the client vocabulary holds for a path (the first array offset
\* registered under that path) that the profile binds to the registered action
\* X, and 0 for every other index.
C13_ResolveByVocabulary ==
    \A profile \in Profiles :
       LET am == BindProfile(ActionMap, profile)
       IN  \A i \in 0..MaxInputs :
              LET ps == {p \in Usable(am.m_clientInputPaths, am.m_serverActionPaths,
                                      profile) : am.m_clientInputPaths[p] = i}
              IN  GetActionIndex(am, i) =
                     IF ps # {}
                     THEN am.m_serverActionPaths[profile[CHOOSE p \in ps : TRUE]]
                     ELSE 0

\* both input paths are registered and bound, one of them to the action of index 1
C13_Witness ==
    /\ DOMAIN ActionMap.m_clientInputPaths = InputPathSet
    /\ DOMAIN ActionMap.m_actionProfile = InputPathSet
    /\ \A p \in InputPathSet :
          /\ ActionMap.m_actionProfile[p] \in DOMAIN ActionMap.m_serverActionPaths
          /\ GetActionIndex(ActionMap, ActionMap.m_clientInputPaths[p])
                = ActionMap.m_serverActionPaths[ActionMap.m_actionProfile[p]]
    /\ \E p \in InputPathSet :
          GetActionIndex(ActionMap, ActionMap.m_clientInputPaths[p]) = 1
    /\ GetActionIndex(ActionMap, MaxInputs) = 0

\* the remap table and the stored profile as functions of the two vocabularies
\* and the profile
RemapOf(cp, ap, profile) ==
    LET usable == Usable(cp, ap, profile)
    IN  [i \in {cp[p] : p \in usable} |->
            ap[profile[CHOOSE p \in usable : cp[p] = i]]]
ProfileOf(cp, ap, profile) ==
    [p \in Usable(cp, ap, profile) |-> profile[p]]

\* C14: the tables BindProfile leaves depend only on the client-input
\* vocabulary, the server-action vocabulary and the profile: bindings with an
\* unregistered path are skipped and the others are kept, whatever the tables
\* held before and whichever profile was bound before.
C14_BindIsFunctionOfInputs ==
    \A profile \in Profiles :
       LET am == BindProfile(ActionMap, profile)
       IN  /\ am.m_inputToActionRemap =
                 RemapOf(ActionMap.m_clientInputPaths, ActionMap.m_serverActionPaths,
                         profile)
           /\ am.m_actionProfile =
                 ProfileOf(ActionMap.m_clientInputPaths, ActionMap.m_serverActionPaths,
                           profile)
           /\ BindProfile(am, profile) = am
           /\ \A earlier \in Profiles :
                 BindProfile(BindProfile(ActionMap, earlier), profile) = am

\* a bind has kept one binding although both paths and both actions are registered
C14_Witness ==
    /\ DOMAIN ActionMap.m_clientInputPaths = InputPathSet
    /\ DOMAIN ActionMap.m_serverActionPaths = ActionPathSet
    /\ Cardinality(DOMAIN ActionMap.m_actionProfile) = 1
    /\ ActionMap.m_inputToActionRemap =
          RemapOf(ActionMap.m_clientInputPaths, ActionMap.m_serverActionPaths,
                  ActionMap.m_actionProfile)
    /\ Cardinality(DOMAIN ActionMap.m_inputToActionRemap) = 1

ClientVocabulary(am) == <<am.m_clientInputPaths, am.m_clientInputDatatypes>>
ServerVocabulary(am) == <<am.m_serverInputPaths, am.m_serverInputDatatypes>>
Bindings(am) == <<am.m_actionProfile, am.m_inputToActionRemap>>

\* C15: each of the three register calls leaves the other two vocabularies, the
\* stored profile and the remap table as they were.
C15_RegisterFrame ==
    /\ \A desc \in ControllerDescs :
          LET am == RegisterClientInputs(ActionMap, desc.inputPaths, desc.inputValueTypes)
          IN  /\ ServerVocabulary(am) = ServerVocabulary(ActionMap)
              /\ am.m_serverActionPaths = ActionMap.m_serverActionPaths
              /\ Bindings(am) = Bindings(ActionMap)
    /\ \A n \in 0..MaxServerInputs :
          \A inputPaths \in [1..n -> InputPathSet], inputTypes \in [1..n -> ValueTypes] :
             LET am == RegisterServerInputs(ActionMap, inputPaths, inputTypes)
             IN  /\ ClientVocabulary(am) = ClientVocabulary(ActionMap)
                 /\ am.m_serverActionPaths = ActionMap.m_serverActionPaths
                 /\ Bindings(am) = Bindings(ActionMap)
    /\ \A actionPaths \in Arrays(ActionPathSet, MaxActions) :
          LET am == RegisterActions(ActionMap, actionPaths)
          IN  /\ ClientVocabulary(am) = ClientVocabulary(ActionMap)
              /\ ServerVocabulary(am) = ServerVocabulary(ActionMap)
              /\ Bindings(am) = Bindings(ActionMap)

\* the action vocabulary was emptied after a bind and the remap table is still there
C15_Witness ==
    /\ ActionMap.m_serverActionPaths = EmptyMap
    /\ Cardinality(DOMAIN ActionMap.m_inputToActionRemap) = 2
    /\ DOMAIN ActionMap.m_clientInputPaths = InputPathSet
    /\ DOMAIN ActionMap.m_serverInputPaths # {}

\* C16: UpdatePose copies the connected and valid flags of every sample; it
\* stores position, velocity, acceleration, angular acceleration and the
\* device-space angular velocity of a valid sample and keeps the stored values
\* when the sample is not valid.
C16_PoseCopiedWhenValid ==
    \A state \in TrackingSamples :
       LET old == ctl.m_pose
           new == UpdatePose(ctl, state).m_pose
       IN  /\ new.deviceIsConnected = state.deviceIsConnected
           /\ new.poseIsValid = state.poseIsValid
           /\ ~state.poseIsValid =>
                 /\ new.position = old.position
                 /\ new.velocity = old.velocity
                 /\ new.acceleration = old.acceleration
                 /\ new.angularAcceleration = old.angularAcceleration
                 /\ new.angularVelocity = old.angularVelocity
           /\ state.poseIsValid =>
                 /\ new.position = state.position
                 /\ new.velocity = state.velocity
                 /\ new.acceleration = state.acceleration
                 /\ new.angularAcceleration = state.angularAcceleration
                 /\ new.angularVelocity =
                       IF ctl.m_angularVelInDevSpace \/ state.rotation = "identity"
                       THEN state.angularVelocity
                       ELSE 0 - state.angularVelocity

\* a sample that is not valid has arrived and the pose of an earlier valid
\* sample is still stored
C16_Witness ==
    /\ ~ctl.m_pose.poseIsValid /\ ctl.m_pose.deviceIsConnected
    /\ ctl.m_pose.position # 0 /\ ctl.m_pose.velocity # 0
    /\ ctl.m_pose.angularVelocity < 0

(* ---- controller input of the client ---- *)
ButtonBits == 0..(Len(ovrBitsToInput) - 1)
TouchBits == 0..(Len(ovrTouchToInput) - 1)

\* the snapshot that differs from last in bit b of the button mask only
FlipButton(last, b) ==
    [last EXCEPT !.Buttons = IF b \in @ THEN @ \ {b} ELSE @ \cup {b}]

\* the sampler run on hand h whose snapshot differs from the cached one in
\* button bit b only
SampleFlip(h, b, t, res) ==
    GetTrackingState(cx, TRUE, StillHead,
        <<[handIndex |-> h, DeviceID |-> CHOOSE id \in DeviceIDs : TRUE, input |-> FlipButton(cx.mLastInputState[h], b),
           inputTimeNS |-> t, res |-> res]>>)

\* C17 as stated: two consecutive snapshots of a controller that differ only in
\* bit 5 of the button mask make the sampler emit exactly one boolean event, and
\* the cache takes the new snapshot only if the submission succeeds.
C17_Bit5OneEvent ==
    \A h \in Hands, t \in TimesNS, res \in {x \in DeviceResults : Sampled(x)} :
        LET r == SampleFlip(h, 5, t, res)
        IN  /\ Len(r.fired[h]) = 1
            /\ r.fired[h][1].valueType = "boolean"
            /\ r.c.mLastInputState[h] # cx.mLastInputState[h] => res.fireOK

\* C17: two consecutive snapshots of a controller that differ only in one bit
\* of the button mask make the sampler emit exactly one boolean event, with the
\* client input index of the table and the new value of the bit, when the table
\* maps the bit, and then the cache takes the new snapshot exactly if the
\* submission succeeds; for a bit the table does not map, bit 5 among them,
\* nothing is emitted and the cache is left as it was.
C17_OneBitOneEvent ==
    \A h \in Hands, b \in ButtonBits, t \in TimesNS,
       res \in {x \in DeviceResults : Sampled(x)} :
        LET last  == cx.mLastInputState[h]
            input == FlipButton(last, b)
            r     == SampleFlip(h, b, t, res)
        IN  IF ovrBitsToInput[b + 1] >= 0
            THEN /\ r.fired[h] = <<[clientTimeNS |-> t,
                                    clientInputIndex |-> ovrBitsToInput[b + 1],
                                    valueType |-> "boolean",
                                    value |-> IF b \in input.Buttons THEN 1 ELSE 0]>>
                 /\ r.c.mLastInputState[h] = IF res.fireOK THEN input ELSE last
            ELSE /\ r.fired[h] = <<>>
                 /\ r.c.mLastInputState[h] = last
                 /\ ~r.threw

\* the press of button A alone has been submitted for a hand, and cached
C17_Witness ==
    /\ cx.mClientState = "StreamingSessionInProgress"
    /\ \E h \in Hands : /\ cx.mLastInputState[h] = [ZeroInputState EXCEPT !.Buttons = {0}]
                        /\ cx.registered[h]

\* a controller event as the peer receives it
Event(t, inputId, type, v) ==
    [clientTimeNS |-> t, clientInputIndex |-> inputId, valueType |-> type, value |-> v]

BitValue(b, mask) == IF b \in mask THEN 1 ELSE 0

\* one event for each mapped bit and each scalar in which input differs from last
ExpectedEvents(last, input, t) ==
    {Event(t, ovrBitsToInput[b + 1], "boolean", BitValue(b, input.Buttons)) :
        b \in {x \in ButtonBits : /\ ovrBitsToInput[x + 1] >= 0
                                  /\ (x \in input.Buttons) # (x \in last.Buttons)}}
    \cup
    {Event(t, ovrTouchToInput[b + 1], "boolean", BitValue(b, input.Touches)) :
        b \in {x \in TouchBits : /\ ovrTouchToInput[x + 1] >= 0
                                 /\ (x \in input.Touches) # (x \in last.Touches)}}
    \cup (IF input.IndexTrigger # last.IndexTrigger
          THEN {Event(t, 4, "float32", input.IndexTrigger)} ELSE {})
    \cup (IF input.GripTrigger # last.GripTrigger
          THEN {Event(t, 7, "float32", input.GripTrigger)} ELSE {})
    \cup (IF input.JoystickX # last.JoystickX
          THEN {Event(t, 10, "float32", input.JoystickX)} ELSE {})
    \cup (IF input.JoystickY # last.JoystickY
          THEN {Event(t, 11, "float32", input.JoystickY)} ELSE {})

\* C18: for any cached snapshot and any current snapshot of one controller, the
\* batch handed to the peer holds exactly one boolean event for each mapped
\* button or touch bit that differs (client input index of the table, new value
\* of the bit), exactly one float event for each scalar that differs, all with
\* the timestamp of the sample, and nothing else: no event for an input that has
\* not changed and none for a bit the tables do not map.
C18_BatchIsTheDelta ==
    \A dev \in {d \in Devices : Sampled(d.res)} :
        LET batch == GetTrackingState(cx, TRUE, StillHead, <<dev>>).fired[dev.handIndex]
            want  == ExpectedEvents(cx.mLastInputState[dev.handIndex], dev.input,
                                    dev.inputTimeNS)
        IN  /\ {batch[i] : i \in DOMAIN batch} = want
            /\ Len(batch) = Cardinality(want)

\* a touch of one hand and the index trigger of the other have been submitted
C18_Witness ==
    /\ cx.mClientState = "StreamingSessionInProgress"
    /\ \E h \in Hands : /\ cx.mLastInputState[h].Touches = {0}
                        /\ cx.mLastInputState[1 - h].IndexTrigger = 1

\* C19: the cached input state of a controller is overwritten, with the current
\* snapshot, only after a batch of at least one event has been submitted to the
\* peer successfully; when the submission fails the caches are left as they
\* were and the failure ends the run of the client: the sampler throws, and
\* after that no sample is taken any more.
C19_CacheAfterSuccess ==
    /\ \A dev \in Devices :
          LET h == dev.handIndex
              r == GetTrackingState(cx, TRUE, StillHead, <<dev>>)
          IN  /\ r.c.mLastInputState[h] # cx.mLastInputState[h]
                    => /\ r.fired[h] # <<>>
                       /\ dev.res.fireOK
                       /\ ~r.threw
                       /\ r.c.mLastInputState[h] = dev.input
              /\ r.fired[h] # <<>> /\ dev.res.fireOK
                    => r.c.mLastInputState[h] = dev.input /\ ~r.threw
              /\ r.fired[h] # <<>> /\ ~dev.res.fireOK
                    => r.c.mLastInputState = cx.mLastInputState /\ r.threw
              /\ r.threw => r.fired[h] # <<>> /\ ~dev.res.fireOK
              /\ r.c.mLastInputState[1 - h] = cx.mLastInputState[1 - h]
    /\ pc = "aborted" => \A devices \in DeviceLists : ~ENABLED PeerGetTrackingState(StillHead, devices)

\* a batch has been cached for a hand, and a later submission has failed
C19_Witness ==
    /\ pc = "aborted"
    /\ \E h \in Hands : cx.mLastInputState[h] # ZeroInputState

\* C20: the registrations of the controllers end with the connection they were
\* made with: whenever the sampler submits a batch of events for a hand, also
\* after a pause and a resume that has created a new connection, that hand has
\* been registered with the connection that exists now.
C20_RegisteredBeforeSubmit ==
    cx.Receiver =>
        \A devices \in SessionLists :
            LET r == GetTrackingState(cx, TRUE, StillHead, devices)
            IN  \A h \in Hands : r.fired[h] # <<>> => r.c.registered[h]

Streaming(c) == c.mClientState = "StreamingSessionInProgress"

\* C21: while a connection lasts a controller is added to it at most once for
\* each hand, under the hand index as its id, in the first frame in which the
\* hand is enumerated while the session is streaming: after such a frame in
\* which the peer accepts the controller, the hand is registered with the
\* connection. When the peer refuses it, nothing is submitted for the device in
\* that frame and the next frame tries again. Outside a streaming session
\* nothing is registered.
C21_RegisteredOncePerHand ==
    /\ \A h \in Hands : /\ cx.adds[h] <= 1
                        /\ cx.registered[h] => cx.regId[h] = h
    /\ cx.Receiver =>
        \A dev \in SessionDevices :
            LET h == dev.handIndex
                r == GetTrackingState(cx, TRUE, StillHead, <<dev>>)
                again == GetTrackingState(r.c, TRUE, StillHead, <<[dev EXCEPT !.res.addOK = TRUE]>>)
            IN  IF Streaming(cx)
                THEN /\ dev.res.addOK => r.c.registered[h] /\ r.c.regId[h] = h
                     /\ ~dev.res.addOK /\ ~cx.registered[h]
                           => /\ r.fired[h] = <<>>
                              /\ ~r.c.registered[h]
                              /\ again.c.registered[h]
                ELSE /\ r.c.registered = cx.registered
                     /\ r.c.adds = cx.adds

\* a query of the runtime for the device fails: the tracking state or the input state
QueryFails(dev) ==
    dev.res.addOK /\ dev.res.fireOK /\ (~dev.res.trackOK \/ ~dev.res.inputOK)

AllSucceed(dev) == Sampled(dev.res) /\ dev.res.fireOK

\* the frames in which a query fails for the first device and the other hand
\* is enumerated after it
FailingFrames ==
    {p \in {d \in SessionDevices : QueryFails(d)} \X {e \in SessionDevices : AllSucceed(e)} :
        p[2].handIndex # p[1].handIndex}

\* C22: when the tracking query or the input query fails for a device in a
\* frame, no event is submitted for it, its cached input state, ClientState and
\* RenderState stay as they were, the devices after it are processed as if it
\* had not been there, and the next frame queries it again: a frame in which
\* the queries succeed submits all of its changes.
C22_QueryFailureSkipsDevice ==
    \A p \in FailingFrames :
        LET d == p[1]
            e == p[2]
            r == GetTrackingState(cx, TRUE, StillHead, <<d, e>>)
            alone == GetTrackingState(cx, TRUE, StillHead, <<e>>)
            next == GetTrackingState(r.c, TRUE, StillHead,
                                     <<[d EXCEPT !.res = [addOK |-> TRUE, trackOK |-> TRUE,
                                                          inputOK |-> TRUE, fireOK |-> TRUE]]>>)
            want == ExpectedEvents(cx.mLastInputState[d.handIndex], d.input, d.inputTimeNS)
        IN  /\ r.fired[d.handIndex] = <<>>
            /\ ~r.threw
            /\ r.c.mLastInputState[d.handIndex] = cx.mLastInputState[d.handIndex]
            /\ r.c.mClientState = cx.mClientState
            /\ r.c.mRenderState = cx.mRenderState
            /\ r.fired[e.handIndex] = alone.fired[e.handIndex]
            /\ r.c.mLastInputState[e.handIndex] = alone.c.mLastInputState[e.handIndex]
            /\ {next.fired[d.handIndex][i] : i \in DOMAIN next.fired[d.handIndex]} = want

\* a hand that has submitted a press before is skipped by a failing query, in a
\* frame in which the other hand submits its own press
C22_Witness ==
    /\ Streaming(cx)
    /\ \E p \in FailingFrames :
          LET r == GetTrackingState(cx, TRUE, StillHead, <<p[1], p[2]>>)
          IN  /\ cx.mLastInputState[p[1].handIndex].Buttons = {0}
              /\ p[1].input = ZeroInputState
              /\ r.fired[p[1].handIndex] = <<>>
              /\ r.fired[p[2].handIndex] # <<>>
              /\ r.c.mLastInputState[p[2].handIndex] = p[2].input

(* ---- the samples of the head ---- *)
\* C23: the tracking flags of the head belong to one sample: a sample that
\* finds the interpupillary distance it found before does not set the has-IPD
\* flag, and a sample sets the has-refresh flag only if the display rate has
\* changed since the sample before it.
C23_FlagsFrameLocal ==
    \A tracking \in HmdSamples :
        LET r == GetTrackingState(cx, TRUE, tracking, <<>>).c
        IN  /\ r.hmd.ipd = cx.hmd.ipd => "HasIPD" \notin r.hmd.flags
            /\ "HasRefresh" \in r.hmd.flags => cx.mRefreshChanged
            /\ "HasRefresh" \notin GetTrackingState(r, TRUE, tracking, <<>>).c.hmd.flags

(* ---- the threads of a session ---- *)
\* the native thread runs Render, which reads mLastHeadPose
RenderReadsHeadPose == pc = "render" /\ pc' = "top" /\ cx.mRenderState = "Running"

\* C24: a tracking sample is taken by the render thread only, so the render
\* thread never runs Render, which reads the last head pose, while a sample is
\* being taken.
C24_SamplingOnRenderThread ==
    [][cx.sampling => ~RenderReadsHeadPose]_vars

(* ---- the frames of a resumed client ---- *)
\* the main loop is about to call Render
RenderCalled == pc = "render" /\ cx.mRenderState = "Running"

\* Render tries to latch a frame
Latches(c) == c.Receiver /\ Streaming(c)

VideoFrames == [Eyes -> [widthFinal : Dims, heightFinal : Dims]]
FramebufferResults == [Eyes -> BOOLEAN]

Calls(seq, name) == {i \in DOMAIN seq : seq[i].call = name}
CallsFor(seq, name, eye) == {i \in DOMAIN seq : seq[i] = Call(name, eye)}

\* C25 as stated: in Render a latch that times out or fails otherwise than by
\* not-connected leaves ClientState and RenderState as they were, both eye
\* buffers are filled with the placeholder background and the frame is
\* submitted; a not-connected latch makes ClientState and RenderState Exiting.
C25_LatchFailureFillsBothEyes ==
    RenderCalled /\ Latches(cx) =>
        \A frameErr \in LatchResults \ {"Success"}, frames \in VideoFrames,
           fbOK \in FramebufferResults :
            LET r     == Render(cx, frameErr, frames)
                calls == RenderCalls(cx, frameErr, frames, fbOK)
            IN  /\ IF frameErr = "Not_Connected"
                   THEN r.mClientState = "Exiting" /\ r.mRenderState = "Exiting"
                   ELSE r.mClientState = cx.mClientState /\ r.mRenderState = cx.mRenderState
                /\ frameErr # "Not_Connected" =>
                      /\ \A eye \in Eyes : CallsFor(calls, "FillBackground", eye) # {}
                      /\ calls[Len(calls)] = Call("SubmitLayers", -1)

\* C25: in Render a latch that times out or fails otherwise than by
\* not-connected leaves ClientState and RenderState as they were; a
\* not-connected latch makes both Exiting. After any failed latch each eye
\* buffer whose framebuffer could be set up is filled once with the placeholder
\* background, an eye whose framebuffer could not be set up is neither filled
\* nor blitted, nothing is blitted or released, and the frame is submitted,
\* once, as the last call.
C25_LatchFailureFillsReadyEyes ==
    RenderCalled /\ Latches(cx) =>
        \A frameErr \in LatchResults \ {"Success"}, frames \in VideoFrames,
           fbOK \in FramebufferResults :
            LET r     == Render(cx, frameErr, frames)
                calls == RenderCalls(cx, frameErr, frames, fbOK)
            IN  /\ IF frameErr = "Not_Connected"
                   THEN r.mClientState = "Exiting" /\ r.mRenderState = "Exiting"
                   ELSE r.mClientState = cx.mClientState /\ r.mRenderState = cx.mRenderState
                /\ \A eye \in Eyes :
                      Cardinality(CallsFor(calls, "FillBackground", eye))
                         = IF fbOK[eye] THEN 1 ELSE 0
                /\ Calls(calls, "cxrBlitFrame") = {}
                /\ Calls(calls, "cxrReleaseFrame") = {}
                /\ Calls(calls, "SubmitLayers") = {Len(calls)}

\* Render has asked for the exit after a not-connected latch: the client is
\* Exiting with its receiver, and UpdateClientState has handled no failure
C25_Witness ==
    /\ pc = "top"
    /\ cx.mClientState = "Exiting"
    /\ cx.mRenderState = "Exiting"
    /\ cx.Receiver
    /\ cx.recov = 0

\* C26: in one Render call a latch that succeeds is followed by exactly one
\* release, every blit lies between the latch and the release, and when the
\* latch fails, when there is no receiver, or when ClientState is not
\* StreamingSessionInProgress, nothing is blitted or released, and without a
\* receiver or a streaming session nothing is latched either: no frame is
\* still latched when Render returns.
C26_LatchReleasePaired ==
    RenderCalled =>
        \A frameErr \in LatchResults, frames \in VideoFrames, fbOK \in FramebufferResults :
            LET calls   == RenderCalls(cx, frameErr, frames, fbOK)
                latches == Calls(calls, "cxrLatchFrame")
                release == Calls(calls, "cxrReleaseFrame")
                blits   == Calls(calls, "cxrBlitFrame")
            IN  /\ Cardinality(latches) = IF Latches(cx) THEN 1 ELSE 0
                /\ IF Latches(cx) /\ frameErr = "Success"
                   THEN /\ Cardinality(release) = 1
                        /\ \A l \in latches, f \in release : l < f
                        /\ \A b \in blits : \A l \in latches, f \in release : l < b /\ b < f
                        /\ \A eye \in Eyes :
                              Cardinality(CallsFor(calls, "cxrBlitFrame", eye))
                                 = IF fbOK[eye] THEN 1 ELSE 0
                   ELSE release = {} /\ blits = {}

\* a frame wider than the eye buffers has been latched, blitted and released
C26_Witness ==
    /\ pc = "top"
    /\ cx.Receiver
    /\ Streaming(cx)
    /\ \A eye \in Eyes : cx.EyeWidth[eye] = MaxDim

\* C27: Render recreates the swapchain of an eye exactly when a frame has been
\* latched and its final width or height for that eye differs from the size
\* recorded for the eye; after a Render call with a latched frame the recorded
\* size of each eye is the final size of its frame, and a Render call without
\* a latched frame leaves swapchains and sizes alone.
C27_SwapchainFollowsFrame ==
    RenderCalled =>
        \A frameErr \in LatchResults, frames \in VideoFrames, fbOK \in FramebufferResults :
            LET r       == Render(cx, frameErr, frames)
                calls   == RenderCalls(cx, frameErr, frames, fbOK)
                latched == Latches(cx) /\ frameErr = "Success"
            IN  \A eye \in Eyes :
                  LET differs == \/ frames[eye].widthFinal # cx.EyeWidth[eye]
                                 \/ frames[eye].heightFinal # cx.EyeHeight[eye]
                  IN  /\ Cardinality(CallsFor(calls, "RecreateSwapchain", eye))
                            = IF latched /\ differs THEN 1 ELSE 0
                      /\ latched => /\ r.EyeWidth[eye] = frames[eye].widthFinal
                                    /\ r.EyeHeight[eye] = frames[eye].heightFinal
                                    /\ r.SwapChains[eye]
                      /\ ~latched => /\ r.EyeWidth[eye] = cx.EyeWidth[eye]
                                     /\ r.EyeHeight[eye] = cx.EyeHeight[eye]
                                     /\ r.SwapChains[eye] = cx.SwapChains[eye]

\* a frame as wide as the eye buffers but higher has been rendered
C27_Witness ==
    /\ pc = "top"
    /\ cx.Receiver
    /\ \A eye \in Eyes : cx.EyeWidth[eye] = GetDeviceDesc.width /\ cx.EyeHeight[eye] = MaxDim

\* what the audio library, the peer and the runtime may answer during AppResumed
ResumeResults ==
    [playback : PlaybackResults, recording : RecordingResults, createOK : BOOLEAN,
     connectOK : BOOLEAN, setRateOK : BOOLEAN]

\* the supported rates that are less than 1 Hz away from the requested rate
CloseRates(rates, requested) ==
    {i \in DOMAIN rates : \E d \in {-1, 0, 1} : rates[i] = Hz(requested) + d}

\* C28: when the client resumes, the display rate it chooses is the first rate
\* of the runtime's list that is less than 1 Hz away from the requested rate;
\* it is the default of 72 Hz when no rate is requested (request <= 0), when no
\* supported rate is that close, or when the runtime rejects the chosen rate;
\* a request of 90 against the rates 72, 80, 90, 120 chooses exactly 90
C28_RefreshRateSelection ==
    pc = "resume" =>
      \A io \in ResumeResults :
        LET chosen    == AppResumedConnect(cx, io).mTargetDisplayRefresh
            requested == GOptions.mRequestedRefreshRate
            rates     == cx.supportedRates
            close     == CloseRates(rates, requested)
        IN  /\ chosen = IF requested <= 0 \/ close = {} \/ ~io.setRateOK
                        THEN Hz(72)
                        ELSE rates[CHOOSE i \in close : \A j \in close : i <= j]
            /\ requested = 90 /\ rates = QuestRates /\ io.setRateOK => chosen = Hz(90)

\* 90 Hz was requested, the runtime reports 89.5 Hz before 90 Hz, and the client
\* has resumed with 89.5 Hz
C28_Witness ==
    /\ pc = "vrapi"
    /\ GOptions.mRequestedRefreshRate = 90
    /\ cx.supportedRates = <<Hz(90) - 1, Hz(90)>>
    /\ cx.mTargetDisplayRefresh = Hz(90) - 1

\* RequestExit has been called (nothing else makes the render state Exiting, and
\* without a PAUSE command nothing takes it back)
ExitRequested == cx.mRenderState = "Exiting"

\* C29: once RequestExit has been called, the main loop finishes the iteration
\* in progress and MainLoop returns, as long as the native thread keeps running
\* and no event of the activity is pending
C29_ExitReturns == ExitRequested ~> pc \in {"returned", "released"}

\* the value a peer that replays the events holds for a bit of a mask
ViewOfBit(h, table, bit) == cx.peerView[h][table[bit + 1]]

\* C30: while a connection lasts, the events the peer accepted for a controller,
\* replayed in order onto an all-zero state, give for every mapped button bit,
\* every mapped touch bit and every scalar the value of the controller's cached
\* raw input state
C30_PeerViewMatchesCache ==
    cx.Receiver =>
      \A h \in Hands :
        LET cache == cx.mLastInputState[h]
        IN  /\ \A b \in 0..(Len(ovrBitsToInput) - 1) :
                  ovrBitsToInput[b + 1] >= 0 =>
                    ViewOfBit(h, ovrBitsToInput, b) = (IF b \in cache.Buttons THEN 1 ELSE 0)
            /\ \A b \in 0..(Len(ovrTouchToInput) - 1) :
                  ovrTouchToInput[b + 1] >= 0 =>
                    ViewOfBit(h, ovrTouchToInput, b) = (IF b \in cache.Touches THEN 1 ELSE 0)
            /\ cx.peerView[h][4]  = cache.IndexTrigger
            /\ cx.peerView[h][7]  = cache.GripTrigger
            /\ cx.peerView[h][10] = cache.JoystickX
            /\ cx.peerView[h][11] = cache.JoystickY

\* the left controller is registered with the receiver, and the peer has
\* accepted the press of its button A
C30_Witness ==
    /\ cx.Receiver
    /\ cx.registered[0]
    /\ cx.peerView[0][ovrBitsToInput[1]] = 1
    /\ 0 \in cx.mLastInputState[0].Buttons

\* the sample the peer was given last reports the display rate as rate, capped
Reported(rate) ==
    "HasRefresh" \in cx.hmd.flags /\ cx.hmd.displayRefresh = ClampRefresh(rate)

\* C31: a change of the display rate to some rate is followed by a sample that
\* carries the has-refresh flag and that rate (capped at 90 Hz), unless a later
\* change to another rate is waiting to be reported in its place, however the
\* handler of the event and the sample on the peer's thread interleave
C31_RateChangeReported ==
    \A rate \in RefreshRates :
       (cx.mRefreshChanged /\ cx.mTargetDisplayRefresh = rate)
          ~> (Reported(rate) \/ (cx.mRefreshChanged /\ cx.mTargetDisplayRefresh # rate))

C33_ExitTearsDown ==
    pc = "returned" /\ cx.mClientState = "Exiting" =>
      /\ ~cx.Receiver
      /\ cx.playbackStream # "open"
      /\ cx.recordingStream # "open"

\* C34: at the end of every iteration of the main loop mWasPaused is false
\* exactly when the VR session is held
C34_WasPausedMirrorsSession ==
    pc = "top" => (cx.mWasPaused <=> ~cx.mOvrSession)

\* the main loop is about to run HandleVrModeChanges with a resume request
\* that has not been applied
ResumePending == pc = "vrmode" /\ ~cx.mIsPaused /\ cx.mWasPaused

\* C35 as stated: a resume request changes nothing while the window is missing,
\* and with a window, and the client not Exiting, VR mode is entered and
\* AppResumed runs
C35_ResumeAppliedWithWindow ==
    ResumePending =>
      \A enterOK \in BOOLEAN :
        LET r == HandleVrModeChanges(cx, enterOK)
        IN  /\ ~cx.mNativeWindow => r.c = cx /\ ~r.resume
            /\ cx.mNativeWindow /\ cx.mClientState # "Exiting" =>
                  r.resume /\ r.c.mOvrSession

\* C35: a resume request changes nothing while the window is missing and the
\* client is not Exiting; with a window, and the client not Exiting, AppResumed
\* runs in VR mode when the runtime grants the session, and otherwise
\* RequestExit is all that happens
C35_ResumeAppliedWhenGranted ==
    ResumePending /\ cx.mClientState # "Exiting" =>
      \A enterOK \in BOOLEAN :
        LET r == HandleVrModeChanges(cx, enterOK)
        IN  IF ~cx.mNativeWindow THEN r.c = cx /\ ~r.resume
            ELSE IF enterOK \/ cx.mOvrSession
                 THEN r.resume /\ r.c.mOvrSession /\ ~r.c.mIsPaused
                 ELSE ~r.resume /\ r.c = RequestExit(cx)

\* an iteration has passed HandleVrModeChanges without a window: the resume
\* request is still there, and no session was entered
C35_Witness ==
    /\ pc = "vrapi"
    /\ ~cx.mIsPaused /\ cx.mWasPaused
    /\ ~cx.mNativeWindow
    /\ ~cx.mOvrSession
    /\ cx.mClientState # "Exiting"

\* C36: whatever the cached and the new snapshots are, no eventCount passes 18
\* in a frame (4 scalars, 8 mapped button bits, 6 mapped touch bits), which is
\* less than the 64 entries of a controller's buffer, every device is met with
\* its hand's count at 0, and the counts are 0 when the frame ends
C36_EventBufferNeverOverrun ==
    \A devices \in BufferLists :
       LET e == EventCounts(cx, devices)
       IN  /\ e.peak <= 4 + Cardinality(MappedBits(ovrBitsToInput))
                          + Cardinality(MappedBits(ovrTouchToInput))
           /\ e.peak <= 18
           /\ e.peak < 64
           /\ ~e.dirty
           /\ ~e.threw => \A h \in Hands : e.counts[h] = 0
           /\ e.c = ProcessControllers(cx, devices).c

\* the peer has accepted an event for each of the 4 scalars and 14 mapped bits
\* of the left controller, which is cached with every bit set, while the right
\* one is at rest
C36_Witness ==
    /\ cx.mLastInputState[0].Buttons = 0..(Len(ovrBitsToInput) - 1)
    /\ cx.mLastInputState[0].Touches = 0..(Len(ovrTouchToInput) - 1)
    /\ cx.mLastInputState[0].GripTrigger = 1
    /\ cx.mLastInputState[0].IndexTrigger = 1
    /\ cx.mLastInputState[1] = ZeroInputState
    /\ cx.peerView[0] = [i \in InputIndices |-> IF i \in {1, 6} THEN 0 ELSE 1]

\* the controller object the peer's side makes for the description the client
\* registers a hand with
QuestController(h) ==
    RegisterController(CloudXRController(TRUE, TRUE),
                       ControllerDescOf([handIndex |-> h, DeviceID |-> 7]))

\* C37: every event the sampler makes, whatever the cached and the new snapshot,
\* has a client input index of the Quest input list (0..20) whose declared type
\* is the type of the event's value, and passes the type check of the
\* controller registered with that list
C37_EventsMatchQuestTypes ==
    \A h \in Hands, input \in BufferSnapshots :
       LET events == InputEvents(cx.mLastInputState[h], input, 1)
           k      == QuestController(h)
       IN  \A i \in DOMAIN events :
              /\ events[i].clientInputIndex \in 0..(Len(inputPathsQuest) - 1)
              /\ events[i].clientInputIndex \in 0..20
              /\ inputValueTypesQuest[events[i].clientInputIndex + 1] = events[i].valueType
              /\ ~TypeMismatch(k, events[i])

\* the peer has accepted a float event (trigger value) and a boolean event
\* (button A) of the right controller
C37_Witness ==
    /\ cx.registered[1]
    /\ cx.peerView[1][4] = 1
    /\ cx.peerView[1][12] = 1

\* C38: every entry c -> a of the remap table names a client input index c
\* and a server action index a that are registered now, under paths that the
\* stored profile binds to one another
C38_RemapRefersToRegistered ==
    LET am == ctl.m_actionMap
    IN  \A c \in DOMAIN am.m_inputToActionRemap :
          /\ c \in DOMAIN am.m_clientInputDatatypes
          /\ \E p \in DOMAIN am.m_clientInputPaths, q \in DOMAIN am.m_serverActionPaths :
                /\ am.m_clientInputPaths[p] = c
                /\ am.m_serverActionPaths[q] = am.m_inputToActionRemap[c]
                /\ p \in DOMAIN am.m_actionProfile
                /\ am.m_actionProfile[p] = q
====
